---------------------------- MODULE Spec2Model ----------------------------
(***************************************************************************)
(* AstroGuard backend: the historical-impact comparator                    *)
(* (backend/historical_impacts.py) and the request handlers of the Flask   *)
(* server (backend/app.py).                                                *)
(*                                                                         *)
(* Numbers.  Python floats are modelled as exact values: a finite float is *)
(* a signed rational n/d over arbitrary-size naturals (TLC's own integers  *)
(* are 32 bits wide and the catalog holds 5*10^11), and the two special    *)
(* floats inf and nan are values of their own with Python's comparison and *)
(* arithmetic rules.  Rounding of the last bit of a finite float is not    *)
(* modelled; overflow is, through inf.                                     *)
(***************************************************************************)
EXTENDS Integers, Sequences, FiniteSets, TLC

(***************************************************************************)
(* Bounds of the model.                                                    *)
(***************************************************************************)
\* finite energies drawn as inputs are m * 10^k, m in 1..MaxMantissa
MaxMantissa == 15
\* ... with k in -MaxNegExp10 .. MaxExp10
MaxNegExp10 == 5
MaxExp10 == 13

(***************************************************************************)
(* Arbitrary-size naturals: little-endian sequences of limbs in base 10^4, *)
(* without leading (most significant) zero limbs; zero is << >>.           *)
(***************************************************************************)
BASE == 100 * 100

RECURSIVE BNorm(_)
BNorm(a) ==
  IF a = << >> THEN << >>
  ELSE IF a[Len(a)] = 0 THEN BNorm(SubSeq(a, 1, Len(a) - 1))
  ELSE a

RECURSIVE BFromNat(_)
BFromNat(n) ==
  IF n = 0 THEN << >> ELSE << n % BASE >> \o BFromNat(n \div BASE)

RECURSIVE BAddC(_, _, _)
BAddC(a, b, carry) ==
  IF a = << >> /\ b = << >>
  THEN IF carry = 0 THEN << >> ELSE << carry >>
  ELSE LET x == IF a = << >> THEN 0 ELSE Head(a)
           y == IF b = << >> THEN 0 ELSE Head(b)
           s == x + y + carry
       IN  << s % BASE >>
           \o BAddC(IF a = << >> THEN << >> ELSE Tail(a),
                    IF b = << >> THEN << >> ELSE Tail(b),
                    s \div BASE)

BAdd(a, b) == BAddC(a, b, 0)

\* a - b for a >= b
RECURSIVE BSubC(_, _, _)
BSubC(a, b, borrow) ==
  IF a = << >> THEN << >>
  ELSE LET y == IF b = << >> THEN 0 ELSE Head(b)
           s == Head(a) - y - borrow
       IN  << IF s < 0 THEN s + BASE ELSE s >>
           \o BSubC(Tail(a), IF b = << >> THEN << >> ELSE Tail(b),
                    IF s < 0 THEN 1 ELSE 0)

BSub(a, b) == BNorm(BSubC(a, b, 0))

\* a * k for a small natural k (k < 10^5)
RECURSIVE BMulSmallC(_, _, _)
BMulSmallC(a, k, carry) ==
  IF a = << >> THEN BFromNat(carry)
  ELSE LET s == Head(a) * k + carry
       IN  << s % BASE >> \o BMulSmallC(Tail(a), k, s \div BASE)

BMulSmall(a, k) == BNorm(BMulSmallC(a, k, 0))

BShift(a) == IF a = << >> THEN << >> ELSE << 0 >> \o a

RECURSIVE BMul(_, _)
BMul(a, b) ==
  IF a = << >> \/ b = << >> THEN << >>
  ELSE BAdd(BMulSmall(b, Head(a)), BShift(BMul(Tail(a), b)))

\* -1, 0, 1 as a < b, a = b, a > b
RECURSIVE BCmpFrom(_, _, _)
BCmpFrom(a, b, i) ==
  IF i = 0 THEN 0
  ELSE IF a[i] < b[i] THEN -1
  ELSE IF a[i] > b[i] THEN 1
  ELSE BCmpFrom(a, b, i - 1)

BCmp(a, b) ==
  IF Len(a) < Len(b) THEN -1
  ELSE IF Len(a) > Len(b) THEN 1
  ELSE BCmpFrom(a, b, Len(a))

BLt(a, b) == BCmp(a, b) < 0
BLe(a, b) == BCmp(a, b) <= 0

RECURSIVE BPow10(_)
BPow10(k) ==
  IF k >= 4 THEN << 0 >> \o BPow10(k - 4)
  ELSE << CASE k = 0 -> 1 [] k = 1 -> 10 [] k = 2 -> 100 [] OTHER -> 1000 >>

\* the largest q in lo..hi with q * b <= r (bisection; lo * b <= r is given)
RECURSIVE BDigit(_, _, _, _)
BDigit(r, b, lo, hi) ==
  IF lo = hi THEN lo
  ELSE LET mid == (lo + hi + 1) \div 2
       IN  IF BLe(BMulSmall(b, mid), r)
           THEN BDigit(r, b, mid, hi)
           ELSE BDigit(r, b, lo, mid - 1)

\* floor(a / b) for b > 0: long division, most significant limb first
RECURSIVE BDivFrom(_, _, _, _)
BDivFrom(a, b, i, rem) ==
  IF i = 0 THEN << >>
  ELSE LET r == BNorm(<< a[i] >> \o rem)
           q == BDigit(r, b, 0, BASE - 1)
       IN  BDivFrom(a, b, i - 1, BSub(r, BMulSmall(b, q))) \o << q >>

BDiv(a, b) == BNorm(BDivFrom(a, b, Len(a), << >>))

\* a natural known to fit a machine integer
RECURSIVE BToNat(_)
BToNat(a) == IF a = << >> THEN 0 ELSE Head(a) + BASE * BToNat(Tail(a))


(***************************************************************************)
(* Python floats.  k = "fin": the rational (-1)^neg * n/d (d > 0);         *)
(* k = "inf": +inf or, with neg, -inf; k = "nan".  Zero has neg = FALSE.   *)
(***************************************************************************)
Fin(neg, n, d) == [k |-> "fin", neg |-> neg /\ n # << >>, n |-> n, d |-> d]
FInf == [k |-> "inf", neg |-> FALSE, n |-> << >>, d |-> << 1 >>]
FNan == [k |-> "nan", neg |-> FALSE, n |-> << >>, d |-> << 1 >>]

\* the decimal literal m * 10^k (m a natural below 10^5)
Dec(m, k) ==
  Fin(FALSE,
      BMulSmall(BPow10(IF k > 0 THEN k ELSE 0), m),
      BPow10(IF k < 0 THEN -k ELSE 0))

FNeg(a) == IF a.k = "nan" THEN a ELSE [a EXCEPT !.neg = ~a.neg /\ (a.k = "inf" \/ a.n # << >>)]
FAbs(a) == [a EXCEPT !.neg = FALSE]

\* -1, 0, 1 for two floats that are not nan
FCmp(a, b) ==
  IF a.k = "inf" \/ b.k = "inf"
  THEN LET ra == IF a.k = "inf" THEN (IF a.neg THEN -1 ELSE 1) ELSE 0
           rb == IF b.k = "inf" THEN (IF b.neg THEN -1 ELSE 1) ELSE 0
       IN  IF ra < rb THEN -1 ELSE IF ra > rb THEN 1 ELSE 0
  ELSE IF a.neg /\ ~b.neg THEN -1
  ELSE IF ~a.neg /\ b.neg THEN 1
  ELSE LET c == BCmp(BMul(a.n, b.d), BMul(b.n, a.d))
       IN  IF a.neg THEN -c ELSE c

\* every comparison with nan is false
FLt(a, b) == a.k # "nan" /\ b.k # "nan" /\ FCmp(a, b) < 0
FLe(a, b) == a.k # "nan" /\ b.k # "nan" /\ FCmp(a, b) <= 0
FGt(a, b) == FLt(b, a)

\* a - b
FSub(a, b) ==
  IF a.k = "nan" \/ b.k = "nan" THEN FNan
  ELSE IF a.k = "inf"
       THEN IF b.k = "inf" /\ a.neg = b.neg THEN FNan ELSE a
  ELSE IF b.k = "inf" THEN FNeg(b)
  ELSE LET x == BMul(a.n, b.d)
           y == BMul(b.n, a.d)
           d == BMul(a.d, b.d)
       IN  IF a.neg # b.neg THEN Fin(a.neg, BAdd(x, y), d)
           ELSE IF BLe(y, x) THEN Fin(a.neg, BSub(x, y), d)
           ELSE Fin(~a.neg, BSub(y, x), d)

\* a / b for a finite b # 0 (the code divides by positive catalog energies,
\* by a ratio of at least 0.01 and by 0.015)
FDiv(a, b) ==
  IF a.k = "nan" THEN FNan
  ELSE IF a.k = "inf" THEN [a EXCEPT !.neg = (a.neg # b.neg)]
  ELSE Fin(a.neg # b.neg, BMul(a.n, b.d), BMul(a.d, b.n))

\* int(a): truncation toward zero; a Python exception for inf and nan
FInt(a) ==
  IF a.k = "inf" THEN [exc |-> "OverflowError", neg |-> FALSE, v |-> << >>]
  ELSE IF a.k = "nan" THEN [exc |-> "ValueError", neg |-> FALSE, v |-> << >>]
  ELSE LET q == BDiv(a.n, a.d)
       IN  [exc |-> "", neg |-> a.neg /\ q # << >>, v |-> q]

\* round-half-even of a finite a >= 0 to a natural, as the format
\* specifications .0% and .1f round
FRound(a) ==
  LET q == BDiv(a.n, a.d)
      r2 == BMulSmall(BSub(a.n, BMul(q, a.d)), 2)
      c == BCmp(r2, a.d)
      odd == q # << >> /\ Head(q) % 2 = 1
  IN  IF c > 0 \/ (c = 0 /\ odd) THEN BAdd(q, << 1 >>) ELSE q


(***************************************************************************)
(* backend/historical_impacts.py                                           *)
(***************************************************************************)
VARIABLES
  HISTORICAL_IMPACTS,   \* the module-level list of catalog entries
  frames,               \* per request worker: the handler it runs, its locals
  norm,                 \* the last call of a unit conversion helper
  sim                   \* the simulation request in progress and its response

vars == << HISTORICAL_IMPACTS, frames, norm, sim >>

\* one catalog entry (the narrative fields location, age_display,
\* energy_display, description, effects, emoji and the two diameters are
\* strings and decimals no function reads; they travel with the entry)
Impact(id, name, age_years, energy_mt) ==
  [id |-> id, name |-> name, age_years |-> age_years, energy_mt |-> energy_mt]

\* the list literal the module binds HISTORICAL_IMPACTS to at import
HistoricalImpactsLiteral ==
  << Impact("chicxulub", "Chicxulub Impact", 66000000, Dec(1, 11)),
     Impact("vredefort", "Vredefort Crater", 2023000000, Dec(5, 11)),
     Impact("sudbury", "Sudbury Basin", 1849000000, Dec(6, 10)),
     Impact("popigai", "Popigai Crater", 35700000, Dec(3, 10)),
     Impact("barringer", "Barringer Crater", 50000, Dec(10, 0)),
     Impact("tunguska", "Tunguska Event", 116, Dec(15, 0)),
     Impact("chelyabinsk", "Chelyabinsk Meteor", 13, Dec(5, -1)),
     Impact("hiroshima", "Hiroshima Bomb (Reference)", 81, Dec(15, -3)) >>

\* sorted(list, key=energy_mt): a stable insertion sort into a new list
RECURSIVE InsertByEnergy(_, _)
InsertByEnergy(x, s) ==
  IF s = << >> THEN << x >>
  ELSE IF FLt(x.energy_mt, Head(s).energy_mt) THEN << x >> \o s
  ELSE << Head(s) >> \o InsertByEnergy(x, Tail(s))

RECURSIVE SortedByEnergy(_)
SortedByEnergy(s) ==
  IF s = << >> THEN << >>
  ELSE InsertByEnergy(s[Len(s)], SortedByEnergy(SubSeq(s, 1, Len(s) - 1)))

\* what HISTORICAL_IMPACTS.sort(...) in its place would leave
ListSortedInPlace(list) == SortedByEnergy(list)

\* what the call sorted(HISTORICAL_IMPACTS, ...) leaves in HISTORICAL_IMPACTS:
\* sorted() builds a new list, the argument is untouched
ListAfterSorted(list) == list

\* the ratio the other way round: the candidate over the input
RatioInverted(energy_mt, impact) == FDiv(impact.energy_mt, energy_mt)

\* line 147: ratio = energy_mt / impact['energy_mt']
Ratio(energy_mt, impact) == FDiv(energy_mt, impact.energy_mt)

\* the distance of the inverse ratio from 1
RatioDiffOfInverse(ratio) == FAbs(FSub(FDiv(Dec(1, 0), ratio), Dec(1, 0)))

\* line 148: ratio_diff = abs(1 - ratio) if ratio <= 1 else abs(ratio - 1)
RatioDiff(ratio) ==
  IF FLe(ratio, Dec(1, 0))
  THEN FAbs(FSub(Dec(1, 0), ratio))
  ELSE FAbs(FSub(ratio, Dec(1, 0)))

\* the comparison of line 150 turned round
CloserWhenFarther(ratio_diff, min_ratio_diff) == FGt(ratio_diff, min_ratio_diff)

\* line 150: whether this candidate replaces the closest one so far
Closer(ratio_diff, min_ratio_diff) == FLt(ratio_diff, min_ratio_diff)

\* the text of lines 161-174: the phrase, the number formatted into it (0
\* when the phrase has none) and the name it ends with
Text(phrase, arg, name) == [phrase |-> phrase, arg |-> arg, name |-> name]

\* the same texts with the upper end of every bucket included
ComparisonTextClosedBuckets(ratio, name) ==
  IF FLe(ratio, Dec(1, -2)) THEN Text("much smaller than", 0, name)
  ELSE IF FLe(ratio, Dec(1, -1))
       THEN Text("about 1/N the energy of",
                 BToNat(FInt(FDiv(Dec(1, 0), ratio)).v), name)
  ELSE IF FLe(ratio, Dec(5, -1))
       THEN Text("about P% the energy of",
                 BToNat(FRound(FDiv(ratio, Dec(1, -2)))), name)
  ELSE IF FLe(ratio, Dec(2, 0)) THEN Text("comparable to", 0, name)
  ELSE IF FLe(ratio, Dec(10, 0))
       THEN Text("about R.Rx", BToNat(FRound(FDiv(ratio, Dec(1, -1)))), name)
  ELSE IF FLe(ratio, Dec(100, 0))
       THEN Text("about Nx", BToNat(FInt(ratio).v), name)
  ELSE Text("vastly larger than", 0, name)

\* lines 161-174
ComparisonText(ratio, name) ==
  IF FLt(ratio, Dec(1, -2)) THEN Text("much smaller than", 0, name)
  ELSE IF FLt(ratio, Dec(1, -1))
       THEN Text("about 1/N the energy of",
                 BToNat(FInt(FDiv(Dec(1, 0), ratio)).v), name)
  ELSE IF FLt(ratio, Dec(5, -1))
       THEN Text("about P% the energy of",
                 BToNat(FRound(FDiv(ratio, Dec(1, -2)))), name)
  ELSE IF FLt(ratio, Dec(2, 0)) THEN Text("comparable to", 0, name)
  ELSE IF FLt(ratio, Dec(10, 0))
       THEN Text("about R.Rx", BToNat(FRound(FDiv(ratio, Dec(1, -1)))), name)
  ELSE IF FLt(ratio, Dec(100, 0))
       THEN Text("about Nx", BToNat(FInt(ratio).v), name)
  ELSE Text("vastly larger than", 0, name)

\* line 177: hiroshima_energy = 0.015
HiroshimaEnergy == Dec(15, -3)

\* what a call of a function of the module ends with: kind "none" (return
\* None), "raise" (an exception, named in exc), "result" (the dict of lines
\* 180-186) or "list" (a list of catalog entries)
NoText == Text("", 0, "")
Ret(kind, exc, closest, ratio, text, heq, htext, list) ==
  [kind |-> kind, exc |-> exc, closest_impact |-> closest,
   energy_ratio |-> ratio, comparison_text |-> text,
   hiroshima_equivalent |-> heq, hiroshima_text |-> htext, list |-> list]
RetNone == Ret("none", "", << >>, Dec(0, 0), NoText, Dec(0, 0), << >>, << >>)
RetRaise(exc) == Ret("raise", exc, << >>, Dec(0, 0), NoText, Dec(0, 0), << >>, << >>)
RetList(list) == Ret("list", "", << >>, Dec(0, 0), NoText, Dec(0, 0), << >>, list)
RetPending == Ret("pending", "", << >>, Dec(0, 0), NoText, Dec(0, 0), << >>, << >>)

\* lines 154-186, after the loop: closest is << >> (None) or << entry >>
FinishComparison(energy_mt, closest0, catalog) ==
  LET closest == IF closest0 = << >> THEN catalog[1] ELSE closest0[1]
      ratio == IF FGt(closest.energy_mt, Dec(0, 0))
               THEN FDiv(energy_mt, closest.energy_mt) ELSE Dec(0, 0)
      comparison_text == ComparisonText(ratio, closest.name)
      hiroshima_equivalent == FDiv(energy_mt, HiroshimaEnergy)
      count == FInt(hiroshima_equivalent)
  IN  IF count.exc # "" THEN RetRaise(count.exc)
      ELSE Ret("result", "", << closest >>, ratio, comparison_text,
               hiroshima_equivalent, count.v, << >>)

\* line 190 and line 194
ImpactsLargerThan(catalog, energy_mt) ==
  SelectSeq(catalog, LAMBDA i : FGt(i.energy_mt, energy_mt))
ImpactsSmallerThan(catalog, energy_mt) ==
  SelectSeq(catalog, LAMBDA i : FLt(i.energy_mt, energy_mt))


(***************************************************************************)
(* Python values as they arrive in JSON bodies and upstream payloads, and  *)
(* the built-in float().                                                   *)
(***************************************************************************)
\* t: "int" (huge: beyond the range of a float), "float", "str", "None",
\* "list", "dict"
PyVal(t, f, s, huge) == [t |-> t, f |-> f, s |-> s, huge |-> huge]
PyInt(m) == PyVal("int", Dec(m, 0), << >>, FALSE)
PyHugeInt == PyVal("int", Dec(0, 0), << >>, TRUE)
PyFloat(f) == PyVal("float", f, << >>, FALSE)
PyStr(s) == PyVal("str", Dec(0, 0), s, FALSE)
PyNone == PyVal("None", Dec(0, 0), << >>, FALSE)
PyList == PyVal("list", Dec(0, 0), << >>, FALSE)
PyDict == PyVal("dict", Dec(0, 0), << >>, FALSE)

Digits == << "0", "1", "2", "3", "4", "5", "6", "7", "8", "9" >>
IsDigit(c) == \E i \in 1..10 : Digits[i] = c
DigitVal(c) == (CHOOSE i \in 1..10 : Digits[i] = c) - 1

\* str.strip(): leading and trailing whitespace removed
RECURSIVE LStrip(_)
LStrip(s) == IF s # << >> /\ Head(s) = " " THEN LStrip(Tail(s)) ELSE s
RECURSIVE RStrip(_)
RStrip(s) ==
  IF s # << >> /\ s[Len(s)] = " " THEN RStrip(SubSeq(s, 1, Len(s) - 1)) ELSE s
Strip(s) == LStrip(RStrip(s))

\* the number of digits s starts with
RECURSIVE LeadingDigits(_)
LeadingDigits(s) ==
  IF s # << >> /\ IsDigit(Head(s)) THEN 1 + LeadingDigits(Tail(s)) ELSE 0

\* the natural a digit string spells
RECURSIVE DigitsVal(_)
DigitsVal(s) ==
  IF s = << >> THEN 0 ELSE DigitsVal(SubSeq(s, 1, Len(s) - 1)) * 10 + DigitVal(s[Len(s)])

Drop(s, n) == SubSeq(s, n + 1, Len(s))
HasSign(s) == s # << >> /\ Head(s) \in {"-", "+"}

\* float(s) for a string: [ok |-> FALSE] is ValueError.  The grammar is
\* [ws] [sign] (digits [. [digits]] | . digits) [e [sign] digits] [ws]
\* (the words inf, nan and digit-separating underscores are left out of the
\* alphabet the inputs are drawn from)
ParseFail == [ok |-> FALSE, v |-> Dec(0, 0)]
ParseOk(neg, mant, exp) ==
  [ok |-> TRUE, v |-> IF neg THEN FNeg(Dec(mant, exp)) ELSE Dec(mant, exp)]

\* the digits of the exponent, after its sign
ParseExpDigits(neg, mant, scale, eneg, s) ==
  IF s # << >> /\ LeadingDigits(s) = Len(s)
  THEN ParseOk(neg, mant, (IF eneg THEN -DigitsVal(s) ELSE DigitsVal(s)) - scale)
  ELSE ParseFail

\* what follows the mantissa: nothing, or an exponent
ParseExp(neg, mant, scale, s) ==
  IF s = << >> THEN ParseOk(neg, mant, -scale)
  ELSE IF Head(s) \in {"e", "E"}
       THEN ParseExpDigits(neg, mant, scale,
                           Tail(s) # << >> /\ s[2] = "-",
                           IF HasSign(Tail(s)) THEN Drop(s, 2) ELSE Tail(s))
  ELSE ParseFail

\* the fraction: ipart are the digits before the point, s starts after them
ParseFrac(neg, ipart, s, n2) ==
  IF s # << >> /\ Head(s) = "."
  THEN IF Len(ipart) + n2 >= 1
       THEN ParseExp(neg, DigitsVal(ipart \o SubSeq(s, 2, 1 + n2)), n2,
                     Drop(s, 1 + n2))
       ELSE ParseFail
  ELSE IF Len(ipart) >= 1 THEN ParseExp(neg, DigitsVal(ipart), 0, s)
  ELSE ParseFail

ParseMantissa(neg, s, n1) ==
  ParseFrac(neg, SubSeq(s, 1, n1), Drop(s, n1),
            IF Len(s) > n1 THEN LeadingDigits(Drop(s, n1 + 1)) ELSE 0)

ParseSigned(s) ==
  IF HasSign(s)
  THEN ParseMantissa(Head(s) = "-", Tail(s), LeadingDigits(Tail(s)))
  ELSE ParseMantissa(FALSE, s, LeadingDigits(s))

FloatOfStr(s) == ParseSigned(Strip(s))

\* float(x) for any value: [exc |-> ""] with the float, or the exception
FloatOfParsed(r) ==
  IF r.ok THEN [exc |-> "", v |-> r.v] ELSE [exc |-> "ValueError", v |-> Dec(0, 0)]

FloatOf(x) ==
  CASE x.t = "float" -> [exc |-> "", v |-> x.f]
    [] x.t = "int" -> IF x.huge THEN [exc |-> "OverflowError", v |-> Dec(0, 0)]
                      ELSE [exc |-> "", v |-> x.f]
    [] x.t = "str" -> FloatOfParsed(FloatOfStr(x.s))
    [] OTHER -> [exc |-> "TypeError", v |-> Dec(0, 0)]

(***************************************************************************)
(* Requests.  A worker runs one handler at a time; the steps of different  *)
(* workers interleave.                                                     *)
(***************************************************************************)
\* the largest number of requests in progress at once
NumWorkers == 2
Workers == 1..NumWorkers

PyAbsent == PyVal("absent", Dec(0, 0), << >>, FALSE)

\* dict.get(key, default) on a parsed JSON object
Get(v, default) == IF v.t = "absent" THEN default ELSE v

\* the truth value of a JSON value (`if data.get('crater_km')`)
Truthy(v) ==
  CASE v.t \in {"absent", "None"} -> FALSE
    [] v.t \in {"int", "float"} -> v.huge \/ v.f.k # "fin" \/ v.f.n # << >>
    [] v.t = "str" -> v.s # << >>
    [] OTHER -> TRUE

\* an HTTP response: status 0 is no response yet
Resp(status, success, error) ==
  [status |-> status, success |-> success, error |-> error]
NoResp == Resp(0, FALSE, "")

Frame(op, pc, energy_mt, sorted_impacts, i, closest, min_ratio_diff, ret, resp) ==
  [op |-> op, pc |-> pc, energy_mt |-> energy_mt,
   sorted_impacts |-> sorted_impacts, i |-> i, closest |-> closest,
   min_ratio_diff |-> min_ratio_diff, ret |-> ret, resp |-> resp]
IdleFrame ==
  Frame("idle", "idle", Dec(0, 0), << >>, 0, << >>, FInf, RetPending, NoResp)

\* the finite energies requests carry: m * 10^k megatons
FiniteEnergies ==
  { Dec(m, k) : m \in 1..MaxMantissa, k \in (-MaxNegExp10)..MaxExp10 }
EnergyValues ==
  FiniteEnergies \cup
  { Dec(0, 0), FNeg(Dec(1, 0)), FNeg(Dec(15, -3)), FInf, FNeg(FInf), FNan }

\* the JSON bodies of /api/historical-impacts/compare
CompareEnergies ==
  { PyFloat(e) : e \in EnergyValues } \cup
  { PyAbsent, PyNone, PyStr(<< "a" >>), PyStr(<< " ", "1", "5" >>), PyInt(15) }
CompareCraters ==
  { PyAbsent, PyInt(0), PyFloat(Dec(12, -1)), PyStr(<< "a" >>) }
CompareBodies ==
  [nobody : {FALSE}, energy_mt : CompareEnergies, crater_km : CompareCraters]
  \cup [nobody : {TRUE}, energy_mt : {PyAbsent}, crater_km : {PyAbsent}]

\* app.py 612-617: parse the body and call find_closest_comparison; an
\* exception of the parse goes to the handler's except clause (629-633)
CompareParsed(w, exc, energy_mt) ==
  frames' = [frames EXCEPT ![w] =
    IF exc # ""
    THEN [IdleFrame EXCEPT !.op = "compare", !.pc = "done",
                           !.resp = Resp(500, FALSE, exc)]
    ELSE [IdleFrame EXCEPT !.op = "compare", !.pc = "fcc_entry",
                           !.energy_mt = energy_mt]]

CompareParse(w, nobody, energy, crater) ==
  CompareParsed(w,
                IF nobody THEN "AttributeError"
                ELSE IF energy.exc # "" THEN energy.exc
                ELSE crater.exc,
                energy.v)

CompareRequest(w, body) ==
  /\ frames[w].pc = "idle"
  /\ CompareParse(w, body.nobody,
                  FloatOf(Get(body.energy_mt, PyInt(0))),
                  IF Truthy(body.crater_km)
                  THEN FloatOf(body.crater_km) ELSE [exc |-> "", v |-> Dec(0, 0)])
  /\ UNCHANGED << HISTORICAL_IMPACTS, norm, sim >>

\* historical_impacts.py 136-143
FccEntry(w) ==
  /\ frames[w].pc = "fcc_entry"
  /\ IF FLe(frames[w].energy_mt, Dec(0, 0))
     THEN /\ frames' = [frames EXCEPT ![w].pc = "respond", ![w].ret = RetNone]
          /\ UNCHANGED HISTORICAL_IMPACTS
     ELSE /\ frames' = [frames EXCEPT
                 ![w].pc = "fcc_loop",
                 ![w].sorted_impacts = SortedByEnergy(HISTORICAL_IMPACTS),
                 ![w].i = 1,
                 ![w].closest = << >>,
                 ![w].min_ratio_diff = FInf]
          /\ HISTORICAL_IMPACTS' = ListAfterSorted(HISTORICAL_IMPACTS)
  /\ UNCHANGED << norm, sim >>

\* historical_impacts.py 145-152: one iteration of the loop
FccLoop(w) ==
  /\ frames[w].pc = "fcc_loop"
  /\ frames[w].i <= Len(frames[w].sorted_impacts)
  /\ LET f == frames[w]
         impact == f.sorted_impacts[f.i]
         ratio == Ratio(f.energy_mt, impact)
         ratio_diff == RatioDiff(ratio)
     IN  frames' = [frames EXCEPT ![w] =
           IF FGt(impact.energy_mt, Dec(0, 0)) /\ Closer(ratio_diff, f.min_ratio_diff)
           THEN [f EXCEPT !.i = f.i + 1, !.min_ratio_diff = ratio_diff,
                          !.closest = << impact >>]
           ELSE [f EXCEPT !.i = f.i + 1]]
  /\ UNCHANGED << HISTORICAL_IMPACTS, norm, sim >>

\* historical_impacts.py 154-186
FccFinish(w) ==
  /\ frames[w].pc = "fcc_loop"
  /\ frames[w].i > Len(frames[w].sorted_impacts)
  /\ frames' = [frames EXCEPT
       ![w].pc = "respond",
       ![w].ret = FinishComparison(frames[w].energy_mt, frames[w].closest,
                                   HISTORICAL_IMPACTS)]
  /\ UNCHANGED << HISTORICAL_IMPACTS, norm, sim >>

\* app.py 619-633
CompareRespond(w) ==
  /\ frames[w].pc = "respond"
  /\ frames[w].op = "compare"
  /\ frames' = [frames EXCEPT
       ![w].pc = "done",
       ![w].resp = CASE frames[w].ret.kind = "raise" ->
                          Resp(500, FALSE, frames[w].ret.exc)
                     [] frames[w].ret.kind = "none" ->
                          Resp(400, FALSE, "Invalid energy value")
                     [] OTHER -> Resp(200, TRUE, "")]
  /\ UNCHANGED << HISTORICAL_IMPACTS, norm, sim >>

\* app.py 595-600 and historical_impacts.py 121-123
HistoricalImpactsRequest(w) ==
  /\ frames[w].pc = "idle"
  /\ frames' = [frames EXCEPT ![w] =
       [IdleFrame EXCEPT !.op = "historical", !.pc = "done",
                         !.ret = RetList(HISTORICAL_IMPACTS),
                         !.resp = Resp(200, TRUE, "")]]
  /\ UNCHANGED << HISTORICAL_IMPACTS, norm, sim >>

\* historical_impacts.py 188-190, called with a float
GetImpactsLargerThan(w, energy_mt) ==
  /\ frames[w].pc = "idle"
  /\ frames' = [frames EXCEPT ![w] =
       [IdleFrame EXCEPT !.op = "larger", !.pc = "done", !.energy_mt = energy_mt,
                         !.ret = RetList(ImpactsLargerThan(HISTORICAL_IMPACTS, energy_mt))]]
  /\ UNCHANGED << HISTORICAL_IMPACTS, norm, sim >>

\* historical_impacts.py 192-194, called with a float
GetImpactsSmallerThan(w, energy_mt) ==
  /\ frames[w].pc = "idle"
  /\ frames' = [frames EXCEPT ![w] =
       [IdleFrame EXCEPT !.op = "smaller", !.pc = "done", !.energy_mt = energy_mt,
                         !.ret = RetList(ImpactsSmallerThan(HISTORICAL_IMPACTS, energy_mt))]]
  /\ UNCHANGED << HISTORICAL_IMPACTS, norm, sim >>

\* the response is sent; the worker takes the next request
Return(w) ==
  /\ frames[w].pc = "done"
  /\ frames' = [frames EXCEPT ![w] = IdleFrame]
  /\ UNCHANGED << HISTORICAL_IMPACTS, norm, sim >>

(***************************************************************************)
(* backend/app.py: the unit conversion helpers                             *)
(***************************************************************************)
\* the longest string handed to the helpers
MaxStrLen == 3

\* a * b
FMul(a, b) ==
  IF a.k = "nan" \/ b.k = "nan" THEN FNan
  ELSE IF a.k = "inf" \/ b.k = "inf"
       THEN IF (a.k = "fin" /\ a.n = << >>) \/ (b.k = "fin" /\ b.n = << >>)
            THEN FNan
            ELSE [FInf EXCEPT !.neg = (a.neg # b.neg)]
  ELSE Fin(a.neg # b.neg, BMul(a.n, b.n), BMul(a.d, b.d))

\* line 37: AU_IN_METERS = 149597870700.0
AU_IN_METERS == Fin(FALSE, << 700, 9787, 1495 >>, << 1 >>)

\* math.radians: the factor pi / 180 as the float 0.017453292519943295
RadiansPerDegree == Fin(FALSE, << 3295, 1994, 2925, 7453, 1 >>, BPow10(18))

\* the end of a call: the float returned, or the exception leaving it
Returned(v) == [exc |-> "", v |-> v]

\* the same without the except clause: the exception leaves the call
ToFloatWithoutExcept(r, default) == r

\* lines 40-47 from the point where the try block is left: with the value of
\* its return statement, or after `except Exception: pass` into line 47
\* (the defaults the callers pass are floats: `return default` returns it)
ToFloatAfterTry(r, default) ==
  IF r.exc = "" THEN Returned(r.v) ELSE Returned(default.f)

\* lines 39-47
ToFloat(value, default) ==
  IF value.t \in {"int", "float"} THEN ToFloatAfterTry(FloatOf(value), default)
  ELSE IF value.t = "str"
       THEN ToFloatAfterTry(FloatOf(PyStr(Strip(value.s))), default)
  ELSE Returned(default.f)

\* the default of the parameter: default=0.0
DefaultDefault == PyFloat(Dec(0, 0))

ThenTimes(r, factor) == IF r.exc = "" THEN Returned(FMul(r.v, factor)) ELSE r

\* lines 49-50
AuToMeters(value) == ThenTimes(ToFloat(value, DefaultDefault), AU_IN_METERS)

\* lines 52-53
DegToRad(value) == ThenTimes(ToFloat(value, DefaultDefault), RadiansPerDegree)

\* the characters strings are made of, and the strings
Alphabet == {" ", "-", "1", "5", ".", "e", "a"}
Strings == UNION { [1..n -> Alphabet] : n \in 0..MaxStrLen }

\* the values handed to the helpers: numbers (True and False are the ints 1
\* and 0), an int beyond the range of a float, strings, None, a list, a dict
HelperValues ==
  { PyStr(s) : s \in Strings } \cup
  { PyInt(0), PyInt(1), PyInt(15), PyHugeInt, PyNone, PyList, PyDict,
    PyFloat(Dec(15, -1)), PyFloat(FNeg(Dec(2, 0))), PyFloat(FInf), PyFloat(FNan) }
HelperDefaults == { DefaultDefault, PyFloat(FNeg(Dec(1, 0))) }

NormCall(fn, value, default, ret) ==
  [fn |-> fn, value |-> value, default |-> default, ret |-> ret]
NoCall == NormCall("", PyNone, DefaultDefault, Returned(Dec(0, 0)))

ToFloatCall(value, default) ==
  /\ norm = NoCall
  /\ norm' = NormCall("_to_float", value, default, ToFloat(value, default))
  /\ UNCHANGED << HISTORICAL_IMPACTS, frames, sim >>

AuToMetersCall(value) ==
  /\ norm = NoCall
  /\ norm' = NormCall("_au_to_meters", value, DefaultDefault, AuToMeters(value))
  /\ UNCHANGED << HISTORICAL_IMPACTS, frames, sim >>

DegToRadCall(value) ==
  /\ norm = NoCall
  /\ norm' = NormCall("_deg_to_rad", value, DefaultDefault, DegToRad(value))
  /\ UNCHANGED << HISTORICAL_IMPACTS, frames, sim >>

\* the call has returned to its caller
HelperReturn ==
  /\ norm # NoCall
  /\ norm' = NoCall
  /\ UNCHANGED << HISTORICAL_IMPACTS, frames, sim >>

(***************************************************************************)
(* The physics layer (physics.py), which the handlers import: modelled     *)
(* from its contracts.  Its numeric results are terms over the arguments.  *)
(***************************************************************************)
\* the samples of a propagated orbit
NumSamples == 2

\* the six Keplerian elements; delta_v: the impulses applied to them
OrbitalElements(a, e, i, omega, w, M) ==
  [a |-> a, e |-> e, i |-> i, omega |-> omega, w |-> w, M |-> M,
   delta_v |-> << >>]

\* a non-empty ordered sequence of finite 3D points, a function of the elements
calculate_trajectory(elements) ==
  [k \in 1..NumSamples |-> [elements |-> elements, sample |-> k]]

\* new elements: the input after an impulse of delta_v
deflect_trajectory(elements, delta_v) ==
  [elements EXCEPT !.delta_v = Append(@, delta_v)]

calculate_kinetic_energy(diameter, velocity) ==
  [fn |-> "calculate_kinetic_energy", diameter |-> diameter,
   velocity |-> velocity]

calculate_impact_effects(energy_mt, lat, lon, elevation) ==
  [fn |-> "calculate_impact_effects", energy_mt |-> energy_mt, lat |-> lat,
   lon |-> lon, elevation |-> elevation]

\* impact count = sequence length
calculate_combined_effects(events) ==
  [fn |-> "calculate_combined_effects", events |-> events,
   impact_count |-> Len(events)]

\* whether a call into the layer raises
PhysicsRaises == BOOLEAN

(***************************************************************************)
(* backend/app.py: the simulation handlers                                 *)
(***************************************************************************)
\* the longest `asteroids` list a request carries
MaxAsteroids == 6

FAdd(a, b) == FSub(a, FNeg(b))

\* the state of the handler in progress; answers: what the upstream services
\* answer to its requests
SimState(op, pc, body, answers, idx, all_results, all_trajectories, resp) ==
  [op |-> op, pc |-> pc, body |-> body, answers |-> answers, idx |-> idx,
   all_results |-> all_results, all_trajectories |-> all_trajectories,
   resp |-> resp]

\* a response of a simulation handler: kind "computed", "mock", "multi",
\* "error" (the handler's own error answer) or "unhandled" (the exception
\* left the handler)
SimResp(status, success, error, kind, result) ==
  [status |-> status, success |-> success, error |-> error, kind |-> kind,
   result |-> result]
NoSimResp == SimResp(0, FALSE, "", "", << >>)
SimIdle ==
  SimState("idle", "idle", [kind |-> "none"], << >>, 0, << >>, << >>, NoSimResp)

\* np.linalg.norm(orig - defl) of two points: 0.0 for the same finite point,
\* otherwise a term
PointDistance(orig, defl) ==
  IF orig = defl THEN Dec(0, 0) ELSE [k |-> "norm", orig |-> orig, defl |-> defl]

\* lines 333-345: min over the paired points starting from inf, in km; norms
\* are never negative, so a 0.0 among them is the minimum
calculate_miss_distance(original_traj, deflected_traj) ==
  IF Len(original_traj) = 0 \/ Len(deflected_traj) = 0 THEN FInf
  ELSE IF \E i \in 1..Len(original_traj) :
            /\ i <= Len(deflected_traj)
            /\ PointDistance(original_traj[i], deflected_traj[i]) = Dec(0, 0)
       THEN FDiv(Dec(0, 0), Dec(1000, 0))
  ELSE [k |-> "min_km",
        of |-> { PointDistance(original_traj[i], deflected_traj[i]) :
                 i \in { j \in 1..Len(original_traj) : j <= Len(deflected_traj) } }]

\* the same with every non-zero delta-v applied
DeflectedWheneverNonZero(orbital_elements, mitigation_delta_v, original_trajectory) ==
  IF FCmp(mitigation_delta_v, Dec(0, 0)) # 0
  THEN calculate_trajectory(deflect_trajectory(orbital_elements, mitigation_delta_v))
  ELSE original_trajectory

\* lines 292-296 and 396-400: the deflected trajectory
DeflectedTrajectory(orbital_elements, mitigation_delta_v, original_trajectory) ==
  IF FGt(mitigation_delta_v, Dec(0, 0))
  THEN calculate_trajectory(deflect_trajectory(orbital_elements, mitigation_delta_v))
  ELSE original_trajectory

\* the first exception among the results of the calls, "" when none raised
RECURSIVE FirstExc(_)
FirstExc(rs) ==
  IF rs = << >> THEN ""
  ELSE IF Head(rs).exc # "" THEN Head(rs).exc
  ELSE FirstExc(Tail(rs))

\* one entry of `asteroids`: a JSON object with these keys, or another value
AsteroidParams(asteroidId, name, impactLat, impactLon, mitigationDeltaV, diameter, velocity) ==
  [t |-> "dict", asteroidId |-> asteroidId, name |-> name,
   impactLat |-> impactLat, impactLon |-> impactLon,
   mitigationDeltaV |-> mitigationDeltaV, diameter |-> diameter,
   velocity |-> velocity]
NotADict ==
  [AsteroidParams(PyAbsent, PyAbsent, PyAbsent, PyAbsent, PyAbsent, PyAbsent,
                  PyAbsent) EXCEPT !.t = "int"]

\* line 364
colors == << "#ef4444", "#f59e0b", "#10b981", "#3b82f6", "#8b5cf6" >>

\* lines 384-391; idx counts from 0
MultiElements(idx) ==
  OrbitalElements(FAdd(Dec(15, 10), FMul(Dec(idx, 0), Dec(2, 10))),
                  FAdd(Dec(1, -1), FMul(Dec(idx, 0), Dec(5, -2))),
                  FMul(Dec(1, -1), Dec(idx, 0)),
                  FMul(Dec(5, -1), Dec(idx, 0)),
                  FMul(Dec(3, -1), Dec(idx, 0)),
                  FMul(Dec(2, -1), Dec(idx, 0)))

\* lines 368-372: the five float() calls of an entry, in order
EntryFloats(idx, params) ==
  << FloatOf(Get(params.impactLat,
                 PyFloat(FAdd(Dec(3405, -2), FMul(Dec(idx, 0), Dec(10, 0)))))),
     FloatOf(Get(params.impactLon,
                 PyFloat(FAdd(FNeg(Dec(11824, -2)), FMul(Dec(idx, 0), Dec(15, 0)))))),
     FloatOf(Get(params.mitigationDeltaV, PyInt(0))),
     FloatOf(Get(params.diameter, PyFloat(Dec(1, -1)))),
     FloatOf(Get(params.velocity, PyInt(20))) >>

\* lines 402-414
MultiResult(idx, asteroid_id, params, impact_lat, impact_lon, impact_energy_mt) ==
  [asteroid_id |-> asteroid_id,
   asteroid_name |-> Get(params.name, asteroid_id),
   impact_lat |-> impact_lat, impact_lon |-> impact_lon,
   impact_energy_mt |-> impact_energy_mt,
   effects |-> calculate_impact_effects(impact_energy_mt, impact_lat,
                                        impact_lon, Dec(0, 0)),
   color |-> colors[(idx % Len(colors)) + 1]]

\* lines 394-400 and 417-422
MultiTrajectory(idx, asteroid_id, orbital_elements, mitigation_delta_v) ==
  [asteroid_id |-> asteroid_id,
   color |-> colors[(idx % Len(colors)) + 1],
   original_trajectory |-> calculate_trajectory(orbital_elements),
   deflected_trajectory |->
     DeflectedTrajectory(orbital_elements, mitigation_delta_v,
                         calculate_trajectory(orbital_elements))]

\* the body of the loop (lines 367-422) after the five float() calls
MultiEntryParsed(idx, asteroid_id, params, floats, raises) ==
  IF FirstExc(floats) # ""
  THEN [exc |-> FirstExc(floats), result |-> << >>, trajectory |-> << >>]
  ELSE IF raises
  THEN [exc |-> "physics", result |-> << >>, trajectory |-> << >>]
  ELSE [exc |-> "",
        result |->
          MultiResult(idx, asteroid_id, params, floats[1].v, floats[2].v,
                      calculate_kinetic_energy(
                        FMul(floats[4].v, Dec(1000, 0)),
                        FMul(floats[5].v, Dec(1000, 0)))),
        trajectory |->
          MultiTrajectory(idx, asteroid_id, MultiElements(idx), floats[3].v)]

\* lines 367-422: one iteration; `.get` of an entry that is no object raises
MultiEntry(idx, params, raises) ==
  IF params.t # "dict"
  THEN [exc |-> "AttributeError", result |-> << >>, trajectory |-> << >>]
  ELSE MultiEntryParsed(idx,
                        Get(params.asteroidId,
                            PyStr(<< "asteroid-", Digits[idx + 1] >>)),
                        params, EntryFloats(idx, params), raises)

\* the entries requests carry
AsteroidEntries ==
  { AsteroidParams(PyAbsent, PyAbsent, PyAbsent, PyAbsent, PyAbsent, PyAbsent,
                   PyAbsent),
    AsteroidParams(PyStr(<< "A" >>), PyAbsent, PyAbsent, PyAbsent, PyInt(5),
                   PyAbsent, PyAbsent),
    AsteroidParams(PyAbsent, PyAbsent, PyAbsent, PyAbsent,
                   PyFloat(FNeg(Dec(1, 0))), PyAbsent, PyAbsent),
    AsteroidParams(PyAbsent, PyAbsent, PyAbsent, PyAbsent, PyAbsent,
                   PyStr(<< "a" >>), PyAbsent) }

\* the value under `asteroids`: a list, or absent, null, a non-zero int
AsteroidsList(items) == [t |-> "list", items |-> items]
AsteroidsOther(t) == [t |-> t, items |-> << >>]
AsteroidsValues ==
  { AsteroidsList(items) :
      items \in UNION { [1..n -> AsteroidEntries] : n \in 0..MaxAsteroids } }
  \cup { AsteroidsList(<< NotADict >>) }
  \cup { AsteroidsOther(t) : t \in {"absent", "None", "int"} }

\* the bodies of /api/simulate/multi: a JSON object, or JSON null, or no JSON
MultiBodies ==
  [kind : {"dict"}, asteroids : AsteroidsValues]
  \cup [kind : {"null", "invalid"}, asteroids : {AsteroidsOther("absent")}]

\* line 356: `not asteroids_data`
AsteroidsFalsy(asteroids_data) ==
  \/ asteroids_data.t = "None"
  \/ asteroids_data.t = "list" /\ asteroids_data.items = << >>

\* line 356 with one entry more let through
TooManyAboveSix(items) == Len(items) > 6

\* line 356: `len(asteroids_data) > 5`
TooMany(items) == Len(items) > 5

\* lines 448-453
MultiError(exc) == SimResp(500, FALSE, exc, "error", << >>)

\* lines 353-364: the body is read and validated
MultiReceived(body) ==
  sim' =
       IF body.kind # "dict"
       THEN [SimIdle EXCEPT !.op = "multi", !.pc = "done", !.body = body,
               !.resp = MultiError(IF body.kind = "null" THEN "AttributeError"
                                   ELSE "BadRequest")]
       ELSE IF AsteroidsFalsy(IF body.asteroids.t = "absent"
                              THEN AsteroidsList(<< >>) ELSE body.asteroids)
       THEN [SimIdle EXCEPT !.op = "multi", !.pc = "done", !.body = body,
               !.resp = SimResp(400, FALSE, "Please provide 1-5 asteroids",
                                "error", << >>)]
       ELSE IF body.asteroids.t # "list"
       THEN [SimIdle EXCEPT !.op = "multi", !.pc = "done", !.body = body,
               !.resp = MultiError("TypeError")]
       ELSE IF TooMany(body.asteroids.items)
       THEN [SimIdle EXCEPT !.op = "multi", !.pc = "done", !.body = body,
               !.resp = SimResp(400, FALSE, "Please provide 1-5 asteroids",
                                "error", << >>)]
       ELSE [SimIdle EXCEPT !.op = "multi", !.pc = "loop", !.body = body]

\* POST /api/simulate/multi
MultiRequest ==
  /\ sim.pc = "idle"
  /\ \E body \in MultiBodies : MultiReceived(body)
  /\ UNCHANGED << HISTORICAL_IMPACTS, frames, norm >>

\* what one iteration leaves: the two lists one longer, or the error answer
MultiIterated(entry) ==
  sim' =
    IF entry.exc # ""
    THEN [sim EXCEPT !.pc = "done", !.resp = MultiError(entry.exc)]
    ELSE [sim EXCEPT !.idx = @ + 1,
                     !.all_results = Append(@, entry.result),
                     !.all_trajectories = Append(@, entry.trajectory)]

\* lines 366-422: one iteration of the loop over the entries
MultiIteration(raises) ==
  /\ sim.op = "multi" /\ sim.pc = "loop"
  /\ sim.idx < Len(sim.body.asteroids.items)
  /\ MultiIterated(MultiEntry(sim.idx, sim.body.asteroids.items[sim.idx + 1],
                              raises))
  /\ UNCHANGED << HISTORICAL_IMPACTS, frames, norm >>

\* lines 425-431: the events handed to calculate_combined_effects
CombinedEvents(all_results) ==
  [i \in 1..Len(all_results) |->
     [energy_megatons |-> all_results[i].impact_energy_mt,
      effects |-> all_results[i].effects]]

\* lines 425-446, and 448-453 when calculate_combined_effects raises
MultiCombine(raises) ==
  /\ sim.op = "multi" /\ sim.pc = "loop"
  /\ sim.idx = Len(sim.body.asteroids.items)
  /\ sim' =
       IF raises
       THEN [sim EXCEPT !.pc = "done", !.resp = MultiError("physics")]
       ELSE [sim EXCEPT !.pc = "done",
               !.resp = SimResp(200, TRUE, "", "multi",
                 [individual_results |-> sim.all_results,
                  trajectories |-> sim.all_trajectories,
                  combined_effects |->
                    calculate_combined_effects(CombinedEvents(sim.all_results))])]
  /\ UNCHANGED << HISTORICAL_IMPACTS, frames, norm >>

\* the answer of the small-body database: a JSON object with these keys
AsteroidData(orbital_data, physical_data, object) ==
  [t |-> "dict", orbital_data |-> orbital_data,
   physical_data |-> physical_data, object |-> object]
OrbitalData(semi_major_axis, eccentricity, inclination, longitude_of_ascending_node, argument_of_periapsis, mean_anomaly) ==
  [t |-> "dict", semi_major_axis |-> semi_major_axis,
   eccentricity |-> eccentricity, inclination |-> inclination,
   longitude_of_ascending_node |-> longitude_of_ascending_node,
   argument_of_periapsis |-> argument_of_periapsis,
   mean_anomaly |-> mean_anomaly]
PhysicalData(diameter, v_inf) ==
  [t |-> "dict", diameter |-> diameter, v_inf |-> v_inf]
ObjectData(fullname) == [t |-> "dict", fullname |-> fullname]
\* a key that is absent (`.get` returns its default: {}), or holds null
EmptyOrbitalData ==
  OrbitalData(PyAbsent, PyAbsent, PyAbsent, PyAbsent, PyAbsent, PyAbsent)
EmptyPhysicalData == PhysicalData(PyAbsent, PyAbsent)
EmptyObjectData == ObjectData(PyAbsent)
NullOf(data) == [data EXCEPT !.t = "None"]

\* lines 208-224: the data used when the request to the database fails
FallbackData(asteroid_id) ==
  AsteroidData(
    OrbitalData(PyStr(<< "1", ".", "5" >>), PyStr(<< "0", ".", "1" >>),
                PyStr(<< "0" >>), PyStr(<< "0" >>), PyStr(<< "0" >>),
                PyStr(<< "0" >>)),
    PhysicalData(PyStr(<< "0", ".", "1" >>), PyStr(<< "2", "0", ".", "0" >>)),
    ObjectData(asteroid_id))

\* lines 228-235
ElementsOf(orbital_data) ==
  OrbitalElements(
    AuToMeters(Get(orbital_data.semi_major_axis, PyFloat(Dec(1, 0)))).v,
    ToFloat(Get(orbital_data.eccentricity, PyFloat(Dec(1, -1))), DefaultDefault).v,
    DegToRad(Get(orbital_data.inclination, PyInt(0))).v,
    DegToRad(Get(orbital_data.longitude_of_ascending_node, PyInt(0))).v,
    DegToRad(Get(orbital_data.argument_of_periapsis, PyInt(0))).v,
    DegToRad(Get(orbital_data.mean_anomaly, PyInt(0))).v)

\* lines 240-244 and 247
EnergyOf(physical_data) ==
  calculate_kinetic_energy(
    FMul(ToFloat(Get(physical_data.diameter, PyFloat(Dec(1, -1))),
                 DefaultDefault).v, Dec(1000, 0)),
    FMul(ToFloat(Get(physical_data.v_inf, PyFloat(Dec(20, 0))),
                 DefaultDefault).v, Dec(1000, 0)))

\* the answer of an elevation service: the request or the walk through the
\* answer raised, or the value found (USGS: under Elevation, absent: None;
\* Open-Meteo: the first element of `elevation`, absent when that is no
\* non-empty list)
ElevationAnswer(failed, value) == [failed |-> failed, value |-> value]

\* lines 250-283: USGS first, Open-Meteo when that raised, then 0.0
ElevationOf(usgs, om) ==
  IF ~usgs.failed
  THEN ToFloat(Get(usgs.value, PyNone), DefaultDefault).v
  ELSE IF ~om.failed /\ om.value.t # "absent"
       THEN ToFloat(om.value, DefaultDefault).v
  ELSE Dec(0, 0)

\* the upstream services asked, in order
Upstream(usgs) ==
  IF usgs.failed THEN << "sbdb", "usgs", "open-meteo" >> ELSE << "sbdb", "usgs" >>

\* lines 286-313
Computed(asteroid_name, impact_energy_mt, impact_effects, orbital_elements, mitigation_delta_v, upstream) ==
  [impact_energy_mt |-> impact_energy_mt,
   effects |-> impact_effects,
   original_trajectory |-> calculate_trajectory(orbital_elements),
   deflected_trajectory |->
     DeflectedTrajectory(orbital_elements, mitigation_delta_v,
                         calculate_trajectory(orbital_elements)),
   miss_distance_km |->
     calculate_miss_distance(
       calculate_trajectory(orbital_elements),
       DeflectedTrajectory(orbital_elements, mitigation_delta_v,
                           calculate_trajectory(orbital_elements))),
   asteroid_name |-> asteroid_name,
   upstream |-> upstream]

\* lines 319-331
Mock(asteroid_id) ==
  [impact_energy_mt |-> Dec(1500, 0),
   effects |-> [crater_diameter_km |-> Dec(105, -1), tsunami_risk |-> FALSE,
                seismic_magnitude |-> Dec(62, -1),
                fireball_radius_km |-> Dec(21, -1), target_type |-> "rock"],
   original_trajectory |->
     << << Dec(1, 11), Dec(0, 0), Dec(0, 0) >>,
        << Dec(0, 0), Dec(1, 11), Dec(0, 0) >>,
        << Dec(0, 0), Dec(0, 0), Dec(1, 11) >> >>,
   deflected_trajectory |->
     << << Dec(11, 10), Dec(0, 0), Dec(0, 0) >>,
        << Dec(0, 0), Dec(11, 10), Dec(0, 0) >>,
        << Dec(0, 0), Dec(0, 0), Dec(11, 10) >> >>,
   miss_distance_km |-> Dec(1000, 0),
   asteroid_name |-> asteroid_id,
   upstream |-> << >>]

\* lines 315-331: the except clause reads the body again; on a body that is
\* no JSON, or is a non-empty JSON value without `.get`, that raises in turn
Excepted(body) ==
  IF body.kind = "invalid" THEN SimResp(400, FALSE, "BadRequest", "unhandled", << >>)
  ELSE IF body.kind = "list"
  THEN SimResp(500, FALSE, "AttributeError", "unhandled", << >>)
  ELSE SimResp(200, TRUE, "", "mock",
               Mock(IF body.kind = "dict" THEN Get(body.asteroidId, PyStr(<< "Unknown" >>))
                    ELSE PyStr(<< "Unknown" >>)))

\* lines 227-313, with the data of the asteroid in hand
SimulateWith(body, asteroid_id, mitigation_delta_v, impact_lat, impact_lon, asteroid_data, usgs, om, raises) ==
  IF asteroid_data.t # "dict" \/ asteroid_data.orbital_data.t # "dict"
     \/ asteroid_data.physical_data.t # "dict" \/ raises
     \/ asteroid_data.object.t # "dict"
  THEN Excepted(body)
  ELSE SimResp(200, TRUE, "", "computed",
         Computed(Get(asteroid_data.object.fullname, asteroid_id),
                  EnergyOf(asteroid_data.physical_data),
                  calculate_impact_effects(
                    EnergyOf(asteroid_data.physical_data), impact_lat,
                    impact_lon, ElevationOf(usgs, om)),
                  ElementsOf(asteroid_data.orbital_data),
                  mitigation_delta_v, Upstream(usgs)))

\* lines 199-201: the three float() calls, in order
SimulateFloats(body) ==
  << FloatOf(Get(body.impactLat, PyFloat(Dec(3405, -2)))),
     FloatOf(Get(body.impactLon, PyFloat(FNeg(Dec(11824, -2))))),
     FloatOf(Get(body.mitigationDeltaV, PyInt(0))) >>

\* lines 204-224: the answer of the database, or the fallback data
AsteroidDataOf(sbdb, asteroid_id) ==
  IF sbdb.failed THEN FallbackData(asteroid_id) ELSE sbdb.data

\* lines 198-224; `data.get('asteroidId')` is None for an absent key
SimulateParsed(body, floats, sbdb, usgs, om, raises) ==
  IF FirstExc(floats) # "" THEN Excepted(body)
  ELSE SimulateWith(body, Get(body.asteroidId, PyNone), floats[3].v,
                    floats[1].v, floats[2].v,
                    AsteroidDataOf(sbdb, Get(body.asteroidId, PyNone)),
                    usgs, om, raises)

\* lines 190-331
simulate_impact(body, sbdb, usgs, om, raises) ==
  IF body.kind # "dict" THEN Excepted(body)
  ELSE SimulateParsed(body, SimulateFloats(body), sbdb, usgs, om, raises)

\* the bodies of /api/simulate: a JSON object, JSON null, a non-empty JSON
\* array, or no JSON at all
SimulateBodies ==
  [kind : {"dict"}, asteroidId : {PyAbsent, PyStr(<< "A" >>)},
   impactLat : {PyAbsent, PyStr(<< "a" >>)}, impactLon : {PyAbsent},
   mitigationDeltaV : {PyAbsent, PyInt(0), PyFloat(FNeg(Dec(1, 0))),
                       PyInt(5), PyFloat(FNan), PyNone}]
  \cup [kind : {"null", "list", "invalid"}, asteroidId : {PyAbsent},
        impactLat : {PyAbsent}, impactLon : {PyAbsent},
        mitigationDeltaV : {PyAbsent}]

\* the answers of the small-body database
SbdbAnswers ==
  { [failed |-> TRUE, data |-> AsteroidData(EmptyOrbitalData, EmptyPhysicalData, EmptyObjectData)],
    [failed |-> FALSE, data |-> AsteroidData(EmptyOrbitalData, EmptyPhysicalData, EmptyObjectData)],
    [failed |-> FALSE,
     data |-> AsteroidData(
       OrbitalData(PyStr(<< "2", ".", "5" >>), PyStr(<< "a" >>), PyNone,
                   PyFloat(Dec(15, 0)), PyAbsent, PyStr(<< " ", "5" >>)),
       PhysicalData(PyStr(<< "1", ".", "5" >>), PyNone),
       ObjectData(PyStr(<< "Apophis" >>)))],
    [failed |-> FALSE,
     data |-> AsteroidData(
       OrbitalData(PyStr(<< "a" >>), PyAbsent, PyAbsent, PyAbsent, PyAbsent,
                   PyAbsent),
       EmptyPhysicalData, EmptyObjectData)],
    [failed |-> FALSE,
     data |-> AsteroidData(
       OrbitalData(PyStr(<< "-", "1", ".", "5" >>), PyStr(<< "1", ".", "5" >>),
                   PyAbsent, PyAbsent, PyAbsent, PyAbsent),
       EmptyPhysicalData, ObjectData(PyStr(<< "Oumuamua" >>)))],
    [failed |-> FALSE,
     data |-> AsteroidData(NullOf(EmptyOrbitalData), EmptyPhysicalData, EmptyObjectData)],
    [failed |-> FALSE,
     data |-> [AsteroidData(EmptyOrbitalData, EmptyPhysicalData, EmptyObjectData)
               EXCEPT !.t = "list"]] }

\* the answers of the two elevation services
UsgsAnswers ==
  { ElevationAnswer(TRUE, PyAbsent), ElevationAnswer(FALSE, PyAbsent),
    ElevationAnswer(FALSE, PyStr(<< "a" >>)),
    ElevationAnswer(FALSE, PyFloat(Dec(120, 0))) }
OpenMeteoAnswers ==
  { ElevationAnswer(TRUE, PyAbsent), ElevationAnswer(FALSE, PyAbsent),
    ElevationAnswer(FALSE, PyFloat(FNeg(Dec(50, 0)))) }

\* POST /api/simulate
SimulateImpact ==
  /\ sim.pc = "idle"
  /\ \E body \in SimulateBodies, sbdb \in SbdbAnswers, usgs \in UsgsAnswers,
        om \in OpenMeteoAnswers, raises \in PhysicsRaises :
       sim' = [SimIdle EXCEPT !.op = "simulate", !.pc = "done", !.body = body,
                 !.answers = [sbdb |-> sbdb, usgs |-> usgs, om |-> om,
                              raises |-> raises],
                 !.resp = simulate_impact(body, sbdb, usgs, om, raises)]
  /\ UNCHANGED << HISTORICAL_IMPACTS, frames, norm >>

\* lines 126-188: the query arguments are checked, then the chain of lines
\* 145-179, the same as in simulate_impact
get_elevation(lat, lon, usgs, om) ==
  IF ~Truthy(lat) \/ ~Truthy(lon)
  THEN SimResp(400, FALSE, "Latitude and longitude required", "error", << >>)
  ELSE SimResp(200, TRUE, "", "elevation",
               [elevation |-> ElevationOf(usgs, om),
                upstream |-> Tail(Upstream(usgs))])

\* the query arguments lat and lon: absent, empty or a text
ElevationArgs == { PyAbsent, PyStr(<< >>), PyStr(<< "3", "4" >>) }

\* GET /api/elevation
GetElevation ==
  /\ sim.pc = "idle"
  /\ \E lat \in ElevationArgs, lon \in ElevationArgs, usgs \in UsgsAnswers,
        om \in OpenMeteoAnswers :
       sim' = [SimIdle EXCEPT !.op = "elevation", !.pc = "done",
                 !.body = [kind |-> "args", lat |-> lat, lon |-> lon],
                 !.answers = [usgs |-> usgs, om |-> om],
                 !.resp = get_elevation(lat, lon, usgs, om)]
  /\ UNCHANGED << HISTORICAL_IMPACTS, frames, norm >>

\* the response is sent
SimReturn ==
  /\ sim.pc = "done"
  /\ sim' = SimIdle
  /\ UNCHANGED << HISTORICAL_IMPACTS, frames, norm >>

(***************************************************************************)
(* backend/app.py: the close-approach feed                                 *)
(***************************************************************************)
\* the largest number of objects NASA lists under one day
MaxNeosPerDay == 2

\* one entry of close_approach_data; miss_distance and relative_velocity are
\* flattened to the keys the handler reads
NeoApproach(epoch_date_close_approach, lunar, kilometers, kilometers_per_second) ==
  [epoch_date_close_approach |-> epoch_date_close_approach, lunar |-> lunar,
   kilometers |-> kilometers, kilometers_per_second |-> kilometers_per_second]

\* one object of a day; estimated_diameter.meters is flattened
Neo(id, is_potentially_hazardous_asteroid, estimated_diameter_min, estimated_diameter_max, close_approach_data) ==
  [id |-> id,
   is_potentially_hazardous_asteroid |-> is_potentially_hazardous_asteroid,
   estimated_diameter_min |-> estimated_diameter_min,
   estimated_diameter_max |-> estimated_diameter_max,
   close_approach_data |-> close_approach_data]

\* lines 497-504
RiskLevel(is_hazardous, lunar_distance) ==
  IF is_hazardous /\ FLt(lunar_distance, Dec(1, 0)) THEN "extreme"
  ELSE IF is_hazardous /\ FLt(lunar_distance, Dec(5, 0)) THEN "high"
  ELSE IF FLt(lunar_distance, Dec(10, 0)) THEN "moderate"
  ELSE "low"

\* one record of close_approaches (the texts name, close_approach_date and
\* nasa_jpl_url are left out)
CloseApproach(id, epoch, miss_distance_km, lunar_distance, velocity, diameter_min, diameter_max, avg_diameter, is_hazardous, risk_level) ==
  [id |-> id, epoch_date_close_approach |-> epoch,
   miss_distance_km |-> miss_distance_km,
   miss_distance_lunar |-> lunar_distance, velocity_km_s |-> velocity,
   diameter_min_m |-> diameter_min, diameter_max_m |-> diameter_max,
   avg_diameter_m |-> avg_diameter,
   is_potentially_hazardous |-> is_hazardous, risk_level |-> risk_level]

\* line 489: (diameter_min + diameter_max) / 2 on two JSON values
AvgDiameter(diameter_min, diameter_max) ==
  IF diameter_min.t \in {"int", "float"} /\ diameter_max.t \in {"int", "float"}
  THEN [exc |-> "", v |-> FDiv(FAdd(diameter_min.f, diameter_max.f), Dec(2, 0))]
  ELSE [exc |-> "TypeError", v |-> Dec(0, 0)]

\* lines 506-520, or the exception of lines 486-494
NeoRecordWith(neo, approach, miss_distance_km, diameter_min, diameter_max, avg_diameter, velocity, lunar_distance) ==
  [exc |-> FirstExc(<< miss_distance_km, avg_diameter, velocity, lunar_distance >>),
   record |->
     CloseApproach(neo.id, Get(approach.epoch_date_close_approach, PyNone),
                   miss_distance_km.v, lunar_distance.v, velocity.v,
                   diameter_min, diameter_max, avg_diameter.v,
                   neo.is_potentially_hazardous_asteroid,
                   RiskLevel(neo.is_potentially_hazardous_asteroid,
                             lunar_distance.v))]

\* lines 486-494: the values of one record
NeoRecord(neo, approach) ==
  NeoRecordWith(neo, approach, FloatOf(Get(approach.kilometers, PyInt(0))),
                Get(neo.estimated_diameter_min, PyInt(0)),
                Get(neo.estimated_diameter_max, PyInt(0)),
                AvgDiameter(Get(neo.estimated_diameter_min, PyInt(0)),
                            Get(neo.estimated_diameter_max, PyInt(0))),
                FloatOf(Get(approach.kilometers_per_second, PyInt(0))),
                FloatOf(Get(approach.lunar, PyInt(0))))

\* line 484: the records of one object, in the order of its approaches
NeoRecords(neo) ==
  [i \in 1..Len(neo.close_approach_data) |->
     NeoRecord(neo, neo.close_approach_data[i])]

\* line 482: the records of the objects of one day
RECURSIVE DayRecords(_)
DayRecords(neos) ==
  IF neos = << >> THEN << >>
  ELSE NeoRecords(Head(neos)) \o DayRecords(Tail(neos))

\* line 481: the records of every day, in the order of the payload
RECURSIVE DataRecords(_)
DataRecords(days) ==
  IF days = << >> THEN << >>
  ELSE DayRecords(Head(days)) \o DataRecords(Tail(days))

\* the key of line 523 and the `<` list.sort applies to two keys; a nan is
\* neither below nor above any number
KeyLt(x, y) == FLt(x.epoch_date_close_approach.f, y.epoch_date_close_approach.f)

\* `<` raises the TypeError when a key is None; list.sort compares every
\* element of a list of two or more with another one
SortRaises(a) ==
  /\ Len(a) >= 2
  /\ \E i \in 1..Len(a) : a[i].epoch_date_close_approach.t \notin {"int", "float"}

\* list.sort on fewer than 64 elements: the run that starts the list is
\* found (and reversed when it descends strictly), then every later element
\* is inserted by a binary search among the ones before it
RECURSIVE RunEnd(_, _, _)
RunEnd(a, i, descending) ==
  IF i > Len(a) THEN Len(a)
  ELSE IF KeyLt(a[i], a[i - 1]) = descending THEN RunEnd(a, i + 1, descending)
  ELSE i - 1

Reversed(a) == [i \in 1..Len(a) |-> a[Len(a) + 1 - i]]

RECURSIVE Bisect(_, _, _, _)
Bisect(a, pivot, l, r) ==
  IF l >= r THEN l
  ELSE IF KeyLt(pivot, a[l + ((r - l) \div 2) + 1])
       THEN Bisect(a, pivot, l, l + ((r - l) \div 2))
  ELSE Bisect(a, pivot, l + ((r - l) \div 2) + 1, r)

\* the element at index start (from 0) moves to index l <= start
MovedTo(a, start, l) ==
  SubSeq(a, 1, l) \o << a[start + 1] >> \o SubSeq(a, l + 1, start)
    \o SubSeq(a, start + 2, Len(a))

RECURSIVE BinarySort(_, _)
BinarySort(a, start) ==
  IF start >= Len(a) THEN a
  ELSE BinarySort(MovedTo(a, start, Bisect(a, a[start + 1], 0, start)), start + 1)

SortFromRun(a, n, descending) ==
  IF descending
  THEN BinarySort(Reversed(SubSeq(a, 1, n)) \o SubSeq(a, n + 1, Len(a)), n)
  ELSE BinarySort(a, n)

\* a mutation of ListSort: line 523 is left out
ListLeftAsBuilt(a) == a

\* line 523
ListSort(a) ==
  IF Len(a) < 2 THEN a
  ELSE SortFromRun(a, RunEnd(a, 3, KeyLt(a[2], a[1])), KeyLt(a[2], a[1]))

\* an epoch in milliseconds: (high * 1000 + low) * 10^5
DemoEpoch(high, low) == [PyInt(0) EXCEPT !.f = FAdd(Dec(high, 8), Dec(low, 5))]

\* lines 536-588: the demo list
DemoCloseApproaches ==
  << CloseApproach("demo-1", DemoEpoch(17388, 438),
                   Dec(35, 5), Dec(91, -1), Dec(125, -1), PyInt(100),
                   PyInt(220), Dec(160, 0), FALSE, "low"),
     CloseApproach("demo-2", DemoEpoch(17390, 13),
                   Dec(12, 5), Dec(31, -1), Dec(182, -1), PyInt(250),
                   PyInt(560), Dec(405, 0), TRUE, "high"),
     CloseApproach("demo-3", DemoEpoch(17392, 887),
                   Dec(78, 5), Dec(203, -1), Dec(87, -1), PyInt(50),
                   PyInt(110), Dec(80, 0), FALSE, "low") >>

\* lines 533-588
NeoFallback ==
  SimResp(200, TRUE, "", "fallback",
          [count |-> 3, close_approaches |-> DemoCloseApproaches])

\* lines 523-531, after the loops of lines 478-520
NeoSorted(results, records) ==
  IF FirstExc(results) # "" \/ SortRaises(records) THEN NeoFallback
  ELSE SimResp(200, TRUE, "", "live",
               [count |-> Len(records), close_approaches |-> ListSort(records)])

\* lines 478-520: the records, when none of them raised
NeoParsed(results) ==
  NeoSorted(results, [i \in 1..Len(results) |-> results[i].record])

\* lines 461-588; nasa: the answer of the NeoWs feed
get_neo_close_approaches(nasa) ==
  IF nasa.failed \/ nasa.data.t # "dict" THEN NeoFallback
  ELSE NeoParsed(DataRecords(nasa.data.near_earth_objects))

\* the objects NASA lists
NeoValues ==
  { Neo("1", TRUE, PyInt(100), PyInt(220),
        << NeoApproach(PyInt(2), PyStr(<< "0", ".", "5" >>), PyAbsent, PyAbsent),
           NeoApproach(PyInt(1), PyStr(<< "3" >>), PyAbsent, PyAbsent) >>),
    Neo("2", TRUE, PyInt(100), PyInt(220),
        << NeoApproach(PyFloat(FNan), PyStr(<< "2", "0" >>), PyAbsent, PyAbsent) >>),
    Neo("3", FALSE, PyInt(100), PyAbsent,
        << NeoApproach(PyAbsent, PyStr(<< "7" >>), PyAbsent, PyAbsent) >>),
    Neo("4", TRUE, PyInt(100), PyInt(220),
        << NeoApproach(PyInt(2), PyStr(<< "a" >>), PyAbsent, PyAbsent) >>) }

\* the answers of NASA: the request fails, the payload is no JSON object, or
\* it lists the objects of two days
NasaAnswers ==
  { [failed |-> TRUE, data |-> [t |-> "dict", near_earth_objects |-> << >>]],
    [failed |-> FALSE, data |-> [t |-> "list", near_earth_objects |-> << >>]] }
  \cup { [failed |-> FALSE,
          data |-> [t |-> "dict", near_earth_objects |-> << first, second >>]] :
         first \in UNION { [1..n -> NeoValues] : n \in 0..MaxNeosPerDay },
         second \in UNION { [1..n -> NeoValues] : n \in 0..MaxNeosPerDay } }

\* GET /api/neo/close-approaches
GetNeoCloseApproaches ==
  /\ sim.pc = "idle"
  /\ \E nasa \in NasaAnswers :
       sim' = [SimIdle EXCEPT !.op = "neo", !.pc = "done",
                 !.answers = [nasa |-> nasa],
                 !.resp = get_neo_close_approaches(nasa)]
  /\ UNCHANGED << HISTORICAL_IMPACTS, frames, norm >>

(***************************************************************************)
(* The specifications.  The server starts with the catalog as the module   *)
(* literal and no request in progress.                                     *)
(***************************************************************************)
Init ==
  /\ HISTORICAL_IMPACTS = HistoricalImpactsLiteral
  /\ frames = [w \in Workers |-> IdleFrame]
  /\ norm = NoCall
  /\ sim = SimIdle

\* the comparator and the catalog routes, one request at a time
NextHist ==
  \/ \E body \in CompareBodies : CompareRequest(1, body)
  \/ FccEntry(1)
  \/ FccLoop(1)
  \/ FccFinish(1)
  \/ CompareRespond(1)
  \/ HistoricalImpactsRequest(1)
  \/ \E e \in EnergyValues : GetImpactsLargerThan(1, e)
  \/ \E e \in EnergyValues : GetImpactsSmallerThan(1, e)
  \/ Return(1)
SpecHist == Init /\ [][NextHist]_vars

\* the same routes with requests in progress at once, their steps interleaved
ConcEnergies == { Dec(12, 0), Dec(0, 0) }
ConcBodies ==
  [nobody : {FALSE}, energy_mt : { PyFloat(e) : e \in ConcEnergies },
   crater_km : {PyAbsent}]
NextConc ==
  \E w \in Workers :
    \/ \E body \in ConcBodies : CompareRequest(w, body)
    \/ FccEntry(w)
    \/ FccLoop(w)
    \/ FccFinish(w)
    \/ CompareRespond(w)
    \/ HistoricalImpactsRequest(w)
    \/ \E e \in ConcEnergies : GetImpactsLargerThan(w, e)
    \/ \E e \in ConcEnergies : GetImpactsSmallerThan(w, e)
    \/ Return(w)
SpecConc == Init /\ [][NextConc]_vars

\* calls of the conversion helpers
NextNorm ==
  \/ \E value \in HelperValues, default \in HelperDefaults :
       ToFloatCall(value, default)
  \/ \E value \in HelperValues : AuToMetersCall(value)
  \/ \E value \in HelperValues : DegToRadCall(value)
  \/ HelperReturn
SpecNorm == Init /\ [][NextNorm]_vars

\* the simulation routes
NextSim ==
  \/ MultiRequest
  \/ \E raises \in PhysicsRaises : MultiIteration(raises)
  \/ \E raises \in PhysicsRaises : MultiCombine(raises)
  \/ SimulateImpact
  \/ GetElevation
  \/ SimReturn
SpecSim == Init /\ [][NextSim]_vars

\* the close-approach feed
NextNeo ==
  \/ GetNeoCloseApproaches
  \/ SimReturn
SpecNeo == Init /\ [][NextNeo]_vars

(***************************************************************************)
(* Properties of the comparator.                                           *)
(***************************************************************************)
\* a compare request whose call of find_closest_comparison has ended
Compared(w) == frames[w].op = "compare" /\ frames[w].pc = "done"
                 /\ frames[w].ret.kind # "pending"
Positive(e) == FGt(e, Dec(0, 0))
Catalog == { HISTORICAL_IMPACTS[j] : j \in 1..Len(HISTORICAL_IMPACTS) }
SameFloat(a, b) == a.k # "nan" /\ b.k # "nan" /\ FCmp(a, b) = 0

\* the ratio distance |energy / c.energy - 1|, as |energy - c.energy| / c.energy
RatioDistance(e, c) == FDiv(FAbs(FSub(e, c.energy_mt)), c.energy_mt)

MinimisesRatioDistance(e, ret) ==
  /\ ret.kind = "result"
  /\ ret.closest_impact[1] \in Catalog
  /\ \A c \in Catalog :
       ~FLt(RatioDistance(e, c), RatioDistance(e, ret.closest_impact[1]))

\* C1: for every energy_mt > 0 the call returns a result whose closest_impact
\* is a catalog entry of least ratio distance |energy_mt / c.energy_mt - 1|
C1_ClosestMinimisesRatioDistance ==
  \A w \in Workers :
    Compared(w) /\ Positive(frames[w].energy_mt)
      => MinimisesRatioDistance(frames[w].energy_mt, frames[w].ret)

\* the same for the finite energies, where the call does return
ClosestMinimisesWhenReturned ==
  \A w \in Workers :
    Compared(w) /\ frames[w].ret.kind = "result"
      => MinimisesRatioDistance(frames[w].energy_mt, frames[w].ret)

\* catalog entries small and large mirror each other around e: small = e / k
\* and large = e * k for some k > 1, that is small * large = e * e
SquareOf(e) == Fin(FALSE, BMul(e.n, e.n), BMul(e.d, e.d))
ProductOf(a, b) == Fin(FALSE, BMul(a.n, b.n), BMul(a.d, b.d))
Mirrored(e, small, large) ==
  /\ e.k = "fin" /\ Positive(e)
  /\ FLt(small.energy_mt, e) /\ FLt(e, large.energy_mt)
  /\ SameFloat(ProductOf(small.energy_mt, large.energy_mt), SquareOf(e))

\* the loop of the worker has visited every candidate
LoopOver(w) ==
  /\ frames[w].op = "compare"
  /\ frames[w].pc = "fcc_loop"
  /\ frames[w].i > Len(frames[w].sorted_impacts)

\* C2 as stated: of two mirrored candidates the comparator prefers the one
\* smaller than the input (its ratio_diff is the smaller one)
C2_PrefersSmallerCandidate ==
  \A w \in Workers : \A small, large \in Catalog :
    LoopOver(w) /\ Mirrored(frames[w].energy_mt, small, large)
      => FLt(RatioDiff(Ratio(frames[w].energy_mt, small)),
             RatioDiff(Ratio(frames[w].energy_mt, large)))

\* C2 amended: of two mirrored candidates the comparator prefers the one
\* larger than the input: its ratio_diff is the smaller one, and the smaller
\* candidate is never the one the loop ends with
C2_PrefersLargerCandidate ==
  \A w \in Workers : \A small, large \in Catalog :
    LoopOver(w) /\ Mirrored(frames[w].energy_mt, small, large)
      => /\ FLt(RatioDiff(Ratio(frames[w].energy_mt, large)),
                RatioDiff(Ratio(frames[w].energy_mt, small)))
         /\ frames[w].closest # << small >>
         /\ ~FLt(RatioDiff(Ratio(frames[w].energy_mt, large)),
                 frames[w].min_ratio_diff)

\* a worker has finished the loop on 1,000,000 Mt, which lies between
\* Barringer (10 Mt, 10^5 times smaller) and Chicxulub (10^11 Mt, 10^5 times
\* larger)
C2_Witness ==
  \E w \in Workers :
    /\ LoopOver(w)
    /\ SameFloat(frames[w].energy_mt, Dec(1, 6))
    /\ Mirrored(frames[w].energy_mt, HISTORICAL_IMPACTS[5], HISTORICAL_IMPACTS[1])

\* C3: the call returns None exactly when energy_mt <= 0, returns a result
\* with a catalog entry for every energy_mt > 0, and the endpoint answers the
\* None with 400 'Invalid energy value'
C3_NoneExactlyWhenNotPositive ==
  \A w \in Workers :
    Compared(w) =>
      /\ (frames[w].ret.kind = "none") = FLe(frames[w].energy_mt, Dec(0, 0))
      /\ Positive(frames[w].energy_mt)
           => /\ frames[w].ret.kind = "result"
              /\ frames[w].ret.closest_impact[1] \in Catalog
              /\ frames[w].resp = Resp(200, TRUE, "")
      /\ frames[w].ret.kind = "none"
           => frames[w].resp = Resp(400, FALSE, "Invalid energy value")

\* the part of C3 the code keeps: None exactly for energy_mt <= 0, answered
\* with the 400
NoneAnsweredWith400 ==
  \A w \in Workers :
    Compared(w) =>
      /\ (frames[w].ret.kind = "none") = FLe(frames[w].energy_mt, Dec(0, 0))
      /\ (frames[w].ret.kind = "none")
           = (frames[w].resp = Resp(400, FALSE, "Invalid energy value"))
      /\ frames[w].ret.kind = "result" => frames[w].ret.closest_impact[1] \in Catalog

\* C4: an energy_mt equal to the energy of a catalog entry returns that very
\* entry, energy_ratio 1 and the text 'comparable to <its name>'
C4_ExactEnergyReturnsThatEntry ==
  \A w \in Workers : \A c \in Catalog :
    Compared(w) /\ SameFloat(frames[w].energy_mt, c.energy_mt)
      => /\ frames[w].ret.kind = "result"
         /\ frames[w].ret.closest_impact = << c >>
         /\ SameFloat(frames[w].ret.energy_ratio, Dec(1, 0))
         /\ frames[w].ret.comparison_text = Text("comparable to", 0, c.name)

\* the request with Chicxulub's energy has been answered
C4_Witness ==
  \E w \in Workers :
    /\ Compared(w)
    /\ SameFloat(frames[w].energy_mt, Dec(1, 11))
    /\ frames[w].ret.closest_impact = << HISTORICAL_IMPACTS[1] >>
    /\ frames[w].resp.status = 200

\* lo <= e / c < hi, by cross-multiplication (hi = inf: no upper end)
RatioIn(e, c, lo, hi) ==
  /\ FLe(ProductOf(lo, c), e)
  /\ hi.k = "inf" \/ FLt(e, ProductOf(hi, c))

BucketPhrase(e, c) ==
  CASE RatioIn(e, c, Dec(0, 0), Dec(1, -2)) -> "much smaller than"
    [] RatioIn(e, c, Dec(1, -2), Dec(1, -1)) -> "about 1/N the energy of"
    [] RatioIn(e, c, Dec(1, -1), Dec(5, -1)) -> "about P% the energy of"
    [] RatioIn(e, c, Dec(5, -1), Dec(2, 0)) -> "comparable to"
    [] RatioIn(e, c, Dec(2, 0), Dec(10, 0)) -> "about R.Rx"
    [] RatioIn(e, c, Dec(10, 0), Dec(100, 0)) -> "about Nx"
    [] RatioIn(e, c, Dec(100, 0), FInf) -> "vastly larger than"

BucketBounds ==
  << Dec(0, 0), Dec(1, -2), Dec(1, -1), Dec(5, -1), Dec(2, 0), Dec(10, 0),
     Dec(100, 0), FInf >>

\* C5: the text of a result is the one of the half-open bucket its ratio
\* energy_mt / closest.energy_mt lies in, the ratio lies in exactly one
\* bucket, and the text names the returned closest_impact
C5_TextIsTheBucketOfTheRatio ==
  \A w \in Workers :
    Compared(w) /\ frames[w].ret.kind = "result" =>
      LET e == frames[w].energy_mt
          c == frames[w].ret.closest_impact[1]
      IN  /\ Cardinality({ b \in 1..7 :
                 RatioIn(e, c.energy_mt, BucketBounds[b], BucketBounds[b + 1]) }) = 1
          /\ frames[w].ret.comparison_text.phrase = BucketPhrase(e, c.energy_mt)
          /\ frames[w].ret.comparison_text.name = c.name

\* 10^12 Mt is exactly twice Vredefort: the ratio 2 opens 'about R.Rx'
C5_Witness ==
  \E w \in Workers :
    /\ Compared(w)
    /\ SameFloat(frames[w].energy_mt, Dec(1, 12))
    /\ frames[w].ret.comparison_text = Text("about R.Rx", 20, "Vredefort Crater")

\* C6: for every energy_mt > 0 hiroshima_equivalent is energy_mt / 0.015,
\* whatever the closest entry, and hiroshima_text shows it truncated toward
\* zero
C6_HiroshimaEquivalent ==
  \A w \in Workers :
    Compared(w) /\ Positive(frames[w].energy_mt) =>
      LET e == frames[w].energy_mt
          ret == frames[w].ret
      IN  /\ ret.kind = "result"
          /\ SameFloat(ProductOf(ret.hiroshima_equivalent, Dec(15, -3)), e)
          /\ BLe(BMul(ret.hiroshima_text, BMul(e.d, << 15 >>)), BMul(e.n, << 1000 >>))
          /\ BLt(BMul(e.n, << 1000 >>),
                 BMul(BAdd(ret.hiroshima_text, << 1 >>), BMul(e.d, << 15 >>)))

\* the same for the results the call does return
HiroshimaEquivalentWhenReturned ==
  \A w \in Workers :
    Compared(w) /\ frames[w].ret.kind = "result" =>
      LET e == frames[w].energy_mt
          ret == frames[w].ret
      IN  /\ SameFloat(ProductOf(ret.hiroshima_equivalent, Dec(15, -3)), e)
          /\ BLe(BMul(ret.hiroshima_text, BMul(e.d, << 15 >>)), BMul(e.n, << 1000 >>))
          /\ BLt(BMul(e.n, << 1000 >>),
                 BMul(BAdd(ret.hiroshima_text, << 1 >>), BMul(e.d, << 15 >>)))

(***************************************************************************)
(* Properties of the catalog under concurrent requests.                    *)
(***************************************************************************)
\* C7: whatever calls have run, alone or interleaved, the catalog holds its 8
\* entries in the order and with the field values of the module literal, and
\* the catalog route and the sorting call of each request observe them
C7_CatalogIsReadOnly ==
  /\ HISTORICAL_IMPACTS = HistoricalImpactsLiteral
  /\ Len(HISTORICAL_IMPACTS) = 8
  /\ \A w \in Workers :
       /\ frames[w].op = "historical" /\ frames[w].pc = "done"
            => frames[w].ret = RetList(HistoricalImpactsLiteral)
       /\ frames[w].op = "compare" /\ frames[w].pc = "fcc_loop"
            => frames[w].sorted_impacts = SortedByEnergy(HistoricalImpactsLiteral)

\* two requests in progress at once: one has sorted and is in its loop, the
\* other has gone through the whole of find_closest_comparison
C7_Witness ==
  \E v, w \in Workers :
    /\ v # w
    /\ frames[v].op = "compare" /\ frames[v].pc = "fcc_loop" /\ frames[v].i = 4
    /\ Compared(w) /\ frames[w].ret.kind = "result"

(***************************************************************************)
(* Properties of the conversion helpers.                                   *)
(***************************************************************************)
SameValue(a, b) == (a.k = "nan" /\ b.k = "nan") \/ SameFloat(a, b)

\* the float a number or a numeric string stands for
NumberOf(value) ==
  IF value.t = "str" THEN FloatOfStr(value.s).v ELSE value.f

Converts(value) ==
  \/ value.t = "float"
  \/ value.t = "int" /\ ~value.huge
  \/ value.t = "str" /\ FloatOfStr(value.s).ok

MultiDone == sim.op = "multi" /\ sim.pc = "done"
Items == sim.body.asteroids.items

\* C9: a missing, empty or longer-than-5 list is answered with the 400 before
\* any entry is computed, only lists of 1 to 5 entries are accepted, and an
\* accepted request has one individual result and one trajectory record per
\* entry, in input order, and hands that many events to
\* calculate_combined_effects
C9_OneToFiveEntries ==
  MultiDone =>
    /\ /\ sim.body.kind = "dict"
       /\ \/ sim.body.asteroids.t = "absent"
          \/ sim.body.asteroids.t = "list" /\ (Len(Items) = 0 \/ Len(Items) > 5)
       => /\ sim.resp = SimResp(400, FALSE, "Please provide 1-5 asteroids",
                                "error", << >>)
          /\ sim.idx = 0 /\ sim.all_results = << >> /\ sim.all_trajectories = << >>
    /\ sim.resp.success =>
         /\ sim.body.asteroids.t = "list"
         /\ Len(Items) \in 1..5
         /\ Len(sim.resp.result.individual_results) = Len(Items)
         /\ Len(sim.resp.result.trajectories) = Len(Items)
         /\ \A i \in 1..Len(Items) :
              /\ sim.resp.result.individual_results[i]
                   = MultiEntry(i - 1, Items[i], FALSE).result
              /\ sim.resp.result.trajectories[i]
                   = MultiEntry(i - 1, Items[i], FALSE).trajectory
         /\ Len(sim.resp.result.combined_effects.events) = Len(Items)
         /\ sim.resp.result.combined_effects.impact_count = Len(Items)

\* a request of 5 entries, the second of them deflected, has been answered
C9_Witness ==
  /\ MultiDone /\ sim.resp.success
  /\ Len(Items) = 5
  /\ Len(sim.resp.result.individual_results) = 5
  /\ sim.resp.result.trajectories[2].asteroid_id = PyStr(<< "A" >>)
  /\ sim.resp.result.trajectories[1].asteroid_id = PyStr(<< "asteroid-", "0" >>)

\* the delta-v of a request or an entry is a number <= 0 (absent: 0)
NotPositiveDeltaV(mitigationDeltaV) ==
  /\ FloatOf(Get(mitigationDeltaV, PyInt(0))).exc = ""
  /\ FLe(FloatOf(Get(mitigationDeltaV, PyInt(0))).v, Dec(0, 0))

\* in the answer of simulate_multi_impact the entries with delta-v <= 0 have
\* the original trajectory as their deflected one
MultiUnperturbedIdentical ==
  MultiDone /\ sim.resp.success =>
    \A i \in 1..Len(Items) :
      NotPositiveDeltaV(Items[i].mitigationDeltaV) =>
        sim.resp.result.trajectories[i].deflected_trajectory
          = sim.resp.result.trajectories[i].original_trajectory

SimulateAnswered ==
  sim.op = "simulate" /\ sim.pc = "done" /\ sim.resp.success

ValidElements(elements) ==
  /\ FGt(elements.a, Dec(0, 0))
  /\ FLe(Dec(0, 0), elements.e) /\ FLt(elements.e, Dec(1, 0))

\* the elements simulate_impact has handed to calculate_trajectory
SimulateComputed == SimulateAnswered /\ sim.resp.kind = "computed"
SimulateElements == sim.resp.result.original_trajectory[1].elements

\* the elements simulate_multi_impact has handed over so far
MultiElementsHanded ==
  { sim.all_trajectories[i].original_trajectory[1].elements :
      i \in 1..Len(sim.all_trajectories) }

\* C11: the elements handed to calculate_trajectory and deflect_trajectory
\* have a > 0 and 0 <= e < 1, in simulate_impact for every payload of the
\* database and for the fallback data, in simulate_multi_impact for every
\* index
C11_ElementsAreValid ==
  /\ SimulateComputed => ValidElements(SimulateElements)
  /\ sim.op = "multi" => \A elements \in MultiElementsHanded : ValidElements(elements)

\* the part of C11 the code keeps: the elements of simulate_multi_impact, and
\* those simulate_impact builds with the semi-major axis of the fallback data
\* (1.5 AU) or of a payload without one (1 AU) and an eccentricity that is
\* absent or unparseable
ElementsValidWithoutPayloadValues ==
  /\ sim.op = "multi" => \A elements \in MultiElementsHanded : ValidElements(elements)
  /\ SimulateComputed
       /\ SimulateElements.a \in {AuToMeters(PyFloat(Dec(1, 0))).v,
                                  AuToMeters(PyStr(<< "1", ".", "5" >>)).v}
       => ValidElements(SimulateElements)

(***************************************************************************)
(* Properties of the answers of simulate_impact.                           *)
(***************************************************************************)
SimulateDone == sim.op = "simulate" /\ sim.pc = "done"

\* the name the mock answer carries: the asteroidId of the request, or
\* 'Unknown'
MockName(body) ==
  IF body.kind = "dict" THEN Get(body.asteroidId, PyStr(<< "Unknown" >>))
  ELSE PyStr(<< "Unknown" >>)

\* the answer is the computed result, or the fixed mock result with
\* success = true; after a failed request to the database the computation
\* went on with the fallback data
ComputedOrMock ==
  /\ sim.resp.status = 200 /\ sim.resp.success
  /\ sim.resp.kind \in {"computed", "mock"}
  /\ sim.resp.kind = "mock" =>
       /\ sim.resp.result = Mock(MockName(sim.body))
       /\ sim.resp.result.impact_energy_mt = Dec(1500, 0)
       /\ sim.resp.result.effects.crater_diameter_km = Dec(105, -1)
       /\ sim.resp.result.miss_distance_km = Dec(1000, 0)
  /\ /\ sim.body.kind = "dict" /\ FirstExc(SimulateFloats(sim.body)) = ""
     /\ sim.answers.sbdb.failed /\ ~sim.answers.raises
     => /\ sim.resp.kind = "computed"
        /\ SimulateElements
             = ElementsOf(FallbackData(PyNone).orbital_data)
        /\ sim.resp.result.impact_energy_mt
             = EnergyOf(FallbackData(PyNone).physical_data)

\* C12: simulate_impact never answers with a failure: whatever the body and
\* whatever raises, the answer is the computed result or the mock result
C12_SimulateNeverFails == SimulateDone => ComputedOrMock

\* the part of C12 the code keeps: the same for every body that is a JSON
\* object or JSON null
NeverFailsOnObjectOrNull ==
  SimulateDone /\ sim.body.kind \in {"dict", "null"} => ComputedOrMock

(***************************************************************************)
(* Properties of the elevation chain.                                      *)
(***************************************************************************)
\* a handler has gone through the chain: get_elevation with lat and lon
\* given, or simulate_impact with its computed result
ElevationResolved ==
  \/ sim.op = "elevation" /\ sim.pc = "done" /\ sim.resp.status # 400
  \/ SimulateComputed
ResolvedElevation ==
  IF sim.op = "elevation" THEN sim.resp.result.elevation
  ELSE sim.resp.result.effects.elevation
OpenMeteoQueried ==
  \E i \in 1..Len(sim.resp.result.upstream) :
    sim.resp.result.upstream[i] = "open-meteo"

\* the provider answered, and with a value that is a number
Yields(answer) == ~answer.failed /\ Converts(answer.value)

\* C13: Open-Meteo is queried exactly when USGS yielded no value (its request
\* failed or its answer has no usable Elevation), the elevation is the value
\* of the first provider that yields one and 0.0 only when neither does, and
\* get_elevation with lat and lon given answers success = true
C13_ElevationChain ==
  /\ sim.op = "elevation" /\ sim.pc = "done"
       /\ Truthy(sim.body.lat) /\ Truthy(sim.body.lon)
       => sim.resp.status = 200 /\ sim.resp.success
  /\ ElevationResolved =>
       /\ OpenMeteoQueried = ~Yields(sim.answers.usgs)
       /\ ResolvedElevation =
            IF Yields(sim.answers.usgs) THEN NumberOf(sim.answers.usgs.value)
            ELSE IF Yields(sim.answers.om) THEN NumberOf(sim.answers.om.value)
            ELSE Dec(0, 0)

\* the part of C13 the code keeps: Open-Meteo is queried exactly when the
\* USGS request or the reading of its answer raised; an answer of USGS
\* without a usable Elevation ends the chain with 0.0
ElevationChainOnFailure ==
  /\ sim.op = "elevation" /\ sim.pc = "done"
       /\ Truthy(sim.body.lat) /\ Truthy(sim.body.lon)
       => sim.resp.status = 200 /\ sim.resp.success
  /\ ElevationResolved =>
       /\ OpenMeteoQueried = sim.answers.usgs.failed
       /\ ResolvedElevation =
            IF Yields(sim.answers.usgs) THEN NumberOf(sim.answers.usgs.value)
            ELSE IF ~sim.answers.usgs.failed THEN Dec(0, 0)
            ELSE IF Yields(sim.answers.om) THEN NumberOf(sim.answers.om.value)
            ELSE Dec(0, 0)

(***************************************************************************)
(* Properties of the close-approach feed.                                  *)
(***************************************************************************)
\* the feed has answered; the records of the answer
NeoAnswered == sim.op = "neo" /\ sim.pc = "done"
Answered == sim.resp.result.close_approaches

\* the classification of a record from its own fields
Classification(r) ==
  IF r.is_potentially_hazardous /\ FLt(r.miss_distance_lunar, Dec(1, 0))
  THEN "extreme"
  ELSE IF r.is_potentially_hazardous /\ FLt(r.miss_distance_lunar, Dec(5, 0))
  THEN "high"
  ELSE IF FLt(r.miss_distance_lunar, Dec(10, 0)) THEN "moderate"
  ELSE "low"

\* C14: in every answer of the feed, built from the payload of NASA or the
\* demo list, the risk_level of each record is the classification of the
\* record's own is_potentially_hazardous and miss_distance_lunar
C14_RiskLevelIsTheClassification ==
  NeoAnswered =>
    \A i \in 1..Len(Answered) : Answered[i].risk_level = Classification(Answered[i])

\* the part of C14 the code keeps: the records built from the payload of
\* NASA carry the classification of their own fields
RiskLevelIsTheClassificationWhenLive ==
  NeoAnswered /\ sim.resp.kind = "live" =>
    \A i \in 1..Len(Answered) : Answered[i].risk_level = Classification(Answered[i])

\* no record of the list stands before one of a smaller epoch
NonDecreasing(records) ==
  \A i \in 1..Len(records) : \A j \in (i + 1)..Len(records) :
    ~FLt(records[j].epoch_date_close_approach.f, records[i].epoch_date_close_approach.f)

\* the approach entries of a payload: every day, every object
RECURSIVE NumApproaches(_)
NumApproaches(neos) ==
  IF neos = << >> THEN 0
  ELSE Len(Head(neos).close_approach_data) + NumApproaches(Tail(neos))
PayloadApproaches(data) ==
  NumApproaches(data.near_earth_objects[1] \o data.near_earth_objects[2])

\* an epoch of the list is a nan
SomeEpochIsNan(records) ==
  \E i \in 1..Len(records) : records[i].epoch_date_close_approach.f.k = "nan"

\* the answer is a success that counts its records: one per approach entry
\* of the payload, or the three of the demo list
CountedSuccess ==
  /\ sim.resp.status = 200 /\ sim.resp.success
  /\ sim.resp.result.count = Len(Answered)
  /\ sim.resp.kind = "live" => Len(Answered) = PayloadApproaches(sim.answers.nasa.data)
  /\ sim.resp.kind = "fallback" => Answered = DemoCloseApproaches

AtOrBelowHarmonicMean(e, c1, c2) ==
  FLe(FMul(e, FAdd(c1, c2)), FMul(Dec(2, 0), FMul(c1, c2)))

\* the entry of two of adjacent energies, lower.energy_mt <= e
BetweenAdjacent(e, lower, upper) ==
  IF AtOrBelowHarmonicMean(e, lower.energy_mt, upper.energy_mt) THEN lower
  ELSE upper

\* the entry the switching rule names for e > 0, over the catalog in
\* ascending order of energy
SwitchingRule(e, sorted) ==
  IF FLe(e, sorted[1].energy_mt) THEN sorted[1]
  ELSE IF FLe(sorted[Len(sorted)].energy_mt, e) THEN sorted[Len(sorted)]
  ELSE BetweenAdjacent(e,
         sorted[CHOOSE j \in 1..(Len(sorted) - 1) :
                  FLe(sorted[j].energy_mt, e) /\ FLt(e, sorted[j + 1].energy_mt)],
         sorted[1 + CHOOSE j \in 1..(Len(sorted) - 1) :
                  FLe(sorted[j].energy_mt, e) /\ FLt(e, sorted[j + 1].energy_mt)])

\* the entry returned is the one of the switching rule, and no smaller input
\* has an entry of a larger energy
SelectedByRule(e, ret) ==
  /\ ret.kind = "result"
  /\ ret.closest_impact[1] = SwitchingRule(e, SortedByEnergy(HISTORICAL_IMPACTS))
  /\ \A s1 \in FiniteEnergies :
       FLe(s1, e) =>
         FLe(SwitchingRule(s1, SortedByEnergy(HISTORICAL_IMPACTS)).energy_mt,
             ret.closest_impact[1].energy_mt)

\* C16: every input above 0 returns the entry of the switching rule: the
\* smallest entry below the smallest energy, the largest above the largest,
\* and between two adjacent energies c1 < c2 the lower entry up to and with
\* the harmonic mean of c1 and c2 and the upper one above it; the energy of
\* the entry returned never decreases as the input grows
C16_SelectionSwitchesAtHarmonicMean ==
  Compared(1) /\ Positive(frames[1].energy_mt)
    => SelectedByRule(frames[1].energy_mt, frames[1].ret)

\* the part of C16 the code keeps: every result the call returns holds the
\* entry of the switching rule
SelectionSwitchesWhenReturned ==
  Compared(1) /\ frames[1].ret.kind = "result"
    => SelectedByRule(frames[1].energy_mt, frames[1].ret)

(***************************************************************************)
(* Properties of the texts over the whole range of inputs.                 *)
(***************************************************************************)
\* the catalog in ascending order of energy, and a returned result
Ascending == SortedByEnergy(HISTORICAL_IMPACTS)
Result == frames[1].ret
ResultReturned == Compared(1) /\ Result.kind = "result"

\* an input above 0 and below twice the largest energy returns a ratio below
\* 2, and the three texts of a ratio of 2 and more name the largest entry
LargerTextsOnlyAboveTheCatalog ==
  /\ Compared(1) /\ Positive(frames[1].energy_mt)
       /\ FLt(frames[1].energy_mt, FMul(Dec(2, 0), Ascending[Len(Ascending)].energy_mt))
       => Result.kind = "result" /\ FLt(Result.energy_ratio, Dec(2, 0))
  /\ ResultReturned
       /\ Result.comparison_text.phrase \in {"about R.Rx", "about Nx", "vastly larger than"}
       => /\ FLe(FMul(Dec(2, 0), Ascending[Len(Ascending)].energy_mt), frames[1].energy_mt)
          /\ Result.comparison_text.name = Ascending[Len(Ascending)].name

\* C17 as stated: an input above 0 and below twice the largest energy
\* returns a ratio below 2; 'about R.Rx', 'about Nx' and 'vastly larger
\* than' come only with inputs of twice the largest energy and more and name
\* the largest entry; 'much smaller than' comes only with inputs below 0.01
\* times the smallest energy and names the smallest entry
C17_ExtremeTextsOnlyOutsideTheCatalog ==
  /\ LargerTextsOnlyAboveTheCatalog
  /\ ResultReturned /\ Result.comparison_text.phrase = "much smaller than"
       => /\ FLt(frames[1].energy_mt, FMul(Dec(1, -2), Ascending[1].energy_mt))
          /\ Result.comparison_text.name = Ascending[1].name

\* C17 amended: the same for the ratio and the three texts of a ratio of 2
\* and more; 'much smaller than' comes only with inputs below 0.01 times the
\* energy of the entry it names, which is the smallest entry or an entry the
\* input has passed the harmonic mean towards
C17_MuchSmallerAlsoInsideTheCatalog ==
  /\ LargerTextsOnlyAboveTheCatalog
  /\ ResultReturned /\ Result.comparison_text.phrase = "much smaller than"
       => \E j \in 1..Len(Ascending) :
            /\ Result.comparison_text.name = Ascending[j].name
            /\ FLt(frames[1].energy_mt, FMul(Dec(1, -2), Ascending[j].energy_mt))
            /\ j > 1 => ~AtOrBelowHarmonicMean(frames[1].energy_mt,
                           Ascending[j - 1].energy_mt, Ascending[j].energy_mt)

\* C17 witness: 40 Mt, above the harmonic mean of Tunguska and Popigai, is
\* 'much smaller than Popigai Crater'
C17_Witness ==
  /\ ResultReturned
  /\ SameFloat(frames[1].energy_mt, Dec(4, 1))
  /\ FLt(Result.energy_ratio, Dec(2, 0))
  /\ Result.comparison_text = Text("much smaller than", 0, "Popigai Crater")

=============================================================================
